---------------------------- MODULE Spec2Model ----------------------------
(***************************************************************************)
(* Model of the medical RAG request pipeline:                              *)
(*   rag_core/rag_router.py    MedicalRAGRouter (classification,           *)
(*                             retrieval coordination, answer synthesis)   *)
(*   safety_layer/validator.py MedicalResponseValidator                    *)
(*   rasa/actions/actions.py   get_rag_enhanced_response (the pipeline)    *)
(*                                                                         *)
(* Representation.                                                         *)
(*  - A text (query, draft, final answer) is the sequence of its words:    *)
(*    maximal runs of word characters (apostrophes and inner hyphens       *)
(*    kept), in order; white space and other punctuation separate words.   *)
(*    Words keep their case, str.lower() is the operator LowerText.        *)
(*  - A regular expression of the source is a record (see Pat) matched on  *)
(*    the word sequence by MatchesPattern, which follows re.search: a      *)
(*    pattern may start at any word, \b(...)\b alternatives are whole      *)
(*    phrases, an alternative not closed by \b matches a word prefix,      *)
(*    \s+ is adjacency, \s+\w+\s+ is exactly one word between, .* is any   *)
(*    number of words between.                                             *)
(*  - A float is a fixed-point integer, 1.0 = Fx(100) = 120000, so       *)
(*    means over up to six values and the halving of the validator's       *)
(*    score are exact.                                                     *)
(*  - A source name is the sequence of its characters (one-character       *)
(*    strings), so that lower() and the substring test `in` are computed.  *)
(***************************************************************************)
EXTENDS Integers, Sequences, FiniteSets, TLC

VARIABLES
    pc,                 \* position of the request in get_rag_enhanced_response
    rag_router,         \* TRUE iff module initialisation left rag_router and vector_store set
    query,              \* the query text of the request (NoneText when absent)
    intent,             \* the upstream intent code (None when absent)
    routing_decision,   \* RoutingDecision returned by classify_query (NoDecision before)
    context_results,    \* list of RetrievalResult returned by retrieve_context
    rag_response,       \* RAGResponse returned by generate_rag_response
    draft,              \* the text the request's path produced for validation
    v_args,             \* arguments of the last validate_response / _verify_sources call
    validation_result,  \* ValidationResult returned by validate_response
    verify_result,      \* what a direct call of _verify_sources returned
    result,             \* the record returned to the caller
    collab,             \* what the vector search and the completion service did in this request
    augmented_input,    \* the record MedicalAugmenter.augment returned
    output,             \* the record MedicalGenerator.generate returned
    reqs,               \* the local variables of each of the requests handled concurrently
    heap,               \* the RetrievalResult objects allocated so far, shared by reference
    calls               \* stage events of the request, in order

vars == <<pc, rag_router, query, intent, routing_decision, context_results,
          rag_response, draft, v_args, validation_result, verify_result,
          result, collab, augmented_input, output, reqs, heap, calls>>

-----------------------------------------------------------------------------
(* Bounds of the model *)

\* longest generated query / response text, in words
MaxWords == 2
\* longest generated sources list
MaxSources == 2
\* most matches the vector search returns in the model
MaxResults == 2

\* the longest ranked list handed to generate_rag_response (recommended_k is at most 5)
MaxRetrieved == 4

-----------------------------------------------------------------------------
(* Values *)

\* Python's None where a string is expected (intent, category_filter, query_type)
None == "None"

\* Python's None where a text is expected
NoneText == <<"<None>">>

\* fixed-point value of the float pct/100
Fx(pct) == pct * 1200

Min(a, b) == IF a < b THEN a ELSE b

Max(a, b) == IF a > b THEN a ELSE b

\* all sequences over S of length 0..n
RECURSIVE SeqsUpTo(_, _)
SeqsUpTo(S, n) ==
    IF n = 0 THEN {<<>>}
    ELSE LET shorter == SeqsUpTo(S, n - 1)
         IN  shorter \cup {Append(s, x) : s \in {t \in shorter : Len(t) = n - 1}, x \in S}

-----------------------------------------------------------------------------
(* Words, case and substrings *)

\* str.lower() on a word: the capitalised words of the vocabularies
LowerWord(w) ==
    CASE w = "You"    -> "you"
      [] w = "Stop"   -> "stop"
      [] w = "Call"   -> "call"
      [] w = "Can"    -> "can"
      [] w = "I"      -> "i"
      [] w = "Urgent" -> "urgent"
      [] w = "Cure"   -> "cure"
      [] w = "Safe"   -> "safe"
      [] w = "Please" -> "please"
      [] w = "Consult" -> "consult"
      [] w = "MEDICAL" -> "medical"
      [] w = "EMERGENCY" -> "emergency"
      [] w = "DETECTED" -> "detected"
      [] w = "IMMEDIATE" -> "immediate"
      [] w = "ACTIONS" -> "actions"
      [] w = "Medical" -> "medical"
      [] w = "Disclaimer" -> "disclaimer"
      [] w = "If" -> "if"
      [] w = "Go" -> "go"
      [] w = "Do" -> "do"
      [] w = "For" -> "for"
      [] w = "I'm" -> "i'm"
      [] w = "This" -> "this"
      [] w = "Always" -> "always"
      [] w = "Medication" -> "medication"
      [] w = "Symptom" -> "symptom"
      [] w = "Management" -> "management"
      [] w = "Mental" -> "mental"
      [] w = "In" -> "in"
      [] w = "US" -> "us"
      [] w = "UK" -> "uk"
      [] w = "EU" -> "eu"
      [] w = "Follow" -> "follow"
      [] w = "Stay" -> "stay"
      [] w = "What" -> "what"
      [] w = "How" -> "how"
      [] OTHER -> w

\* str.lower() on a text
LowerText(t) == [i \in 1..Len(t) |-> LowerWord(t[i])]

\* word w begins with the characters of p (w = p, or one of the longer forms
\* of the vocabularies)
StartsWith(w, p) ==
    \/ w = p
    \/ <<w, p>> \in { <<"dangerous", "danger">>, <<"risky", "risk">>, <<"risks", "risk">>,
                      <<"medicines", "medicine">>, <<"haven't", "have">>,
                      <<"taken", "take">>, <<"takes", "take">>, <<"today", "to">>,
                      <<"medications", "medication">> }

\* keyword k occurs in word w as a substring (Python's `k in w` for one word)
WordContains(w, k) ==
    \/ w = k
    \/ <<w, k>> \in { <<"consulting", "consult">>, <<"consultation", "consult">>,
                      <<"professionals", "professional">>, <<"doctor's", "doctor">>,
                      <<"doctors", "doctor">>, <<"physicians", "physician">> }

-----------------------------------------------------------------------------
(* Regular expressions on word sequences *)

\* one-word phrases
W(S) == {<<w>> : w \in S}

\* a regular expression: head alternatives, whether the head is left open (no
\* closing \b), how the tail is linked ("none": no tail, "adj": \s+,
\* "one": \s+\w+\s+, "gap": .*) and the tail alternatives
Pat(head, open, link, tail) == [head |-> head, open |-> open, link |-> link, tail |-> tail]

\* phrase ph stands in text t at word i; with open the last word of ph need
\* only begin the word of t. Case is ignored (re.IGNORECASE).
PhraseAt(t, i, ph, open) ==
    /\ i >= 1
    /\ i + Len(ph) - 1 <= Len(t)
    /\ \A k \in 1..Len(ph) :
          IF open /\ k = Len(ph)
          THEN StartsWith(LowerWord(t[i + k - 1]), ph[k])
          ELSE LowerWord(t[i + k - 1]) = ph[k]

\* re.search(p, t, re.IGNORECASE) is not None
MatchesPattern(t, p) ==
    \E i \in 1..Len(t) : \E ph \in p.head :
        /\ PhraseAt(t, i, ph, p.open)
        /\ CASE p.link = "none" -> TRUE
             [] p.link = "adj"  -> \E q \in p.tail : PhraseAt(t, i + Len(ph), q, FALSE)
             [] p.link = "one"  -> \E q \in p.tail : PhraseAt(t, i + Len(ph) + 1, q, FALSE)
             [] p.link = "gap"  -> \E j \in (i + Len(ph))..Len(t) :
                                      \E q \in p.tail : PhraseAt(t, j, q, FALSE)

-----------------------------------------------------------------------------
(* rag_core/rag_router.py: MedicalRAGRouter *)

emergency_patterns == <<
    Pat({<<"chest", "pain">>, <<"heart", "attack">>, <<"stroke">>, <<"seizure">>, <<"overdose">>},
        FALSE, "none", {}),
    Pat({<<"suicide">>, <<"suicidal">>, <<"kill", "myself">>}, FALSE, "none", {}),
    Pat(W({"emergency", "911", "urgent", "immediate"}), FALSE, "none", {}),
    Pat({<<"unconscious">>, <<"bleeding", "heavily">>, <<"choking">>}, FALSE, "none", {}),
    Pat({<<"severe", "allergic", "reaction">>, <<"anaphylaxis">>}, FALSE, "none", {}),
    Pat({<<"can't", "breathe">>, <<"difficulty", "breathing">>}, FALSE, "none", {}) >>

interaction_patterns == <<
    Pat(W({"interaction", "combine", "mix", "together"}), FALSE, "gap",
        W({"medication", "drug", "pill"})),
    Pat({<<"can", "i", "take">>}, FALSE, "gap", W({"with"})),
    Pat({<<"safe", "to">>, <<"danger">>, <<"risk">>}, TRUE, "gap", W({"combine", "mix"})),
    Pat(W({"medicine"}), TRUE, "gap", W({"together"})) >>

symptom_patterns == <<
    Pat(W({"symptom", "feel", "pain", "ache", "hurt"}), FALSE, "none", {}),
    Pat(W({"headache", "fever", "nausea", "dizzy"}), FALSE, "none", {}),
    Pat(W({"have"}), TRUE, "gap", W({"for", "since"})),
    Pat({<<"what", "could", "cause">>}, FALSE, "none", {}),
    Pat(W({"experiencing"}), FALSE, "none", {}) >>

medication_patterns == <<
    Pat({<<"side", "effect">>, <<"side", "effects">>, <<"dosage">>, <<"how", "much">>},
        FALSE, "none", {}),
    Pat(W({"medication"}), TRUE, "gap", W({"for", "treat"})),
    Pat(W({"take"}), TRUE, "gap", W({"daily", "times"})),
    Pat(W({"prescription"}), FALSE, "none", {}) >>

chronic_patterns == <<
    Pat(W({"diabetes", "hypertension", "asthma", "arthritis"}), FALSE, "none", {}),
    Pat(W({"manage", "management", "control"}), FALSE, "none", {}),
    Pat(W({"diet", "exercise", "lifestyle"}), FALSE, "gap", W({"chronic", "condition"})),
    Pat({<<"blood", "pressure">>, <<"blood", "sugar">>, <<"blood", "glucose">>},
        FALSE, "none", {}) >>

mental_health_patterns == <<
    Pat(W({"anxiety", "depression", "stress", "mental"}), FALSE, "none", {}),
    Pat(W({"mood", "feeling", "emotional"}), FALSE, "none", {}),
    Pat(W({"therapy", "counseling", "support"}), FALSE, "none", {}),
    Pat(W({"sleep", "insomnia", "tired"}), FALSE, "none", {}) >>

diagnostic_patterns == <<
    Pat({<<"test">>, <<"lab">>, <<"blood", "work">>, <<"scan">>}, FALSE, "none", {}),
    Pat({<<"diagnosis">>, <<"diagnose">>, <<"what", "is">>}, FALSE, "none", {}),
    Pat(W({"results", "levels", "values"}), FALSE, "none", {}),
    Pat({<<"normal", "range">>, <<"abnormal">>}, FALSE, "none", {}) >>

\* any(re.search(pattern, text, re.IGNORECASE) for pattern in patterns)
_matches_patterns(text, patterns) ==
    \E n \in DOMAIN patterns : MatchesPattern(text, patterns[n])

RoutingDecision(qt, conf, strategy, flag, k, filter) ==
    [query_type |-> qt, confidence |-> conf, retrieval_strategy |-> strategy,
     emergency_flag |-> flag, recommended_k |-> k, category_filter |-> filter]

\* strategy_map: query type -> (strategy, k, category)
strategy_map(qt) ==
    CASE qt = "drug_interaction" -> <<"interaction_focused", 3, "interaction">>
      [] qt = "symptom_check"    -> <<"symptom_focused", 4, "symptom">>
      [] qt = "medication_info"  -> <<"medication_focused", 3, "medication">>
      [] qt = "chronic_care"     -> <<"chronic_focused", 4, "chronic_condition">>
      [] qt = "mental_health"    -> <<"mental_health_focused", 3, "mental_health">>
      [] qt = "diagnostic"       -> <<"diagnostic_focused", 4, None>>
      [] qt = "general_health"   -> <<"hybrid_search", 5, None>>
      [] OTHER                   -> <<"hybrid_search", 5, None>>

\* a decision builder that raises the emergency flag on a non-emergency type
_create_routing_decision_flagged(qt, q, conf) ==
    LET m == strategy_map(qt)
    IN  RoutingDecision(qt, conf, m[1], TRUE, m[2], m[3])

_create_routing_decision(qt, q, conf) ==
    LET m == strategy_map(qt)
    IN  RoutingDecision(qt, conf, m[1], FALSE, m[2], m[3])

\* intent_mapping of classify_query
intent_mapping == [ask_medication |-> "medication_info", symptom_check |-> "symptom_check",
                   chronic_care |-> "chronic_care", mental_health |-> "mental_health"]

\* the pattern cascade with the medication patterns tried ahead of the symptom patterns
pattern_classification_medication_first(query_lower) ==
    IF _matches_patterns(query_lower, interaction_patterns)
    THEN _create_routing_decision("drug_interaction", query_lower, Fx(85))
    ELSE IF _matches_patterns(query_lower, medication_patterns)
    THEN _create_routing_decision("medication_info", query_lower, Fx(80))
    ELSE IF _matches_patterns(query_lower, symptom_patterns)
    THEN _create_routing_decision("symptom_check", query_lower, Fx(80))
    ELSE IF _matches_patterns(query_lower, chronic_patterns)
    THEN _create_routing_decision("chronic_care", query_lower, Fx(80))
    ELSE IF _matches_patterns(query_lower, mental_health_patterns)
    THEN _create_routing_decision("mental_health", query_lower, Fx(80))
    ELSE IF _matches_patterns(query_lower, diagnostic_patterns)
    THEN _create_routing_decision("diagnostic", query_lower, Fx(75))
    ELSE RoutingDecision("general_health", Fx(60), "hybrid_search", FALSE, 5, None)

\* the pattern-based classification and the default of classify_query
pattern_classification(query_lower) ==
    IF _matches_patterns(query_lower, interaction_patterns)
    THEN _create_routing_decision("drug_interaction", query_lower, Fx(85))
    ELSE IF _matches_patterns(query_lower, symptom_patterns)
    THEN _create_routing_decision("symptom_check", query_lower, Fx(80))
    ELSE IF _matches_patterns(query_lower, medication_patterns)
    THEN _create_routing_decision("medication_info", query_lower, Fx(80))
    ELSE IF _matches_patterns(query_lower, chronic_patterns)
    THEN _create_routing_decision("chronic_care", query_lower, Fx(80))
    ELSE IF _matches_patterns(query_lower, mental_health_patterns)
    THEN _create_routing_decision("mental_health", query_lower, Fx(80))
    ELSE IF _matches_patterns(query_lower, diagnostic_patterns)
    THEN _create_routing_decision("diagnostic", query_lower, Fx(75))
    ELSE RoutingDecision("general_health", Fx(60), "hybrid_search", FALSE, 5, None)

\* classify_query with the pattern cascade consulted before the upstream intent
classify_query_patterns_first(q, rasa_intent) ==
    LET query_lower == LowerText(q)
        by_patterns == pattern_classification(query_lower)
    IN  IF _matches_patterns(query_lower, emergency_patterns)
        THEN RoutingDecision("emergency", Fx(95), "emergency_protocol", TRUE, 1, None)
        ELSE IF by_patterns.query_type # "general_health" THEN by_patterns
        ELSE IF rasa_intent # None /\ rasa_intent # "" /\ rasa_intent \in DOMAIN intent_mapping
        THEN _create_routing_decision(intent_mapping[rasa_intent], query_lower, Fx(90))
        ELSE by_patterns

\* classify_query with the upstream intent consulted before the emergency check
classify_query_intent_first(q, rasa_intent) ==
    LET query_lower == LowerText(q)
    IN  IF rasa_intent # None /\ rasa_intent # "" /\ rasa_intent \in DOMAIN intent_mapping
        THEN _create_routing_decision(intent_mapping[rasa_intent], query_lower, Fx(90))
        ELSE IF _matches_patterns(query_lower, emergency_patterns)
        THEN RoutingDecision("emergency", Fx(95), "emergency_protocol", TRUE, 1, None)
        ELSE pattern_classification(query_lower)

classify_query(q, rasa_intent) ==
    LET query_lower == LowerText(q)
    IN  IF _matches_patterns(query_lower, emergency_patterns)
        THEN RoutingDecision("emergency", Fx(95), "emergency_protocol", TRUE, 1, None)
        ELSE IF rasa_intent # None /\ rasa_intent # "" /\ rasa_intent \in DOMAIN intent_mapping
        THEN _create_routing_decision(intent_mapping[rasa_intent], query_lower, Fx(90))
        ELSE pattern_classification(query_lower)

-----------------------------------------------------------------------------
(* safety_layer/validator.py: MedicalResponseValidator *)

critical_unsafe_patterns == <<
    Pat({<<"stop", "taking">>, <<"discontinue">>, <<"quit">>}, FALSE, "adj",
        W({"medication", "medicine", "pill", "pills"})),
    Pat({<<"take", "more">>, <<"increase", "dose">>, <<"double", "dose">>}, FALSE, "none", {}),
    Pat({<<"you", "have">>, <<"diagnosed", "with">>, <<"definitely", "have">>}, FALSE, "none", {}),
    Pat({<<"cure">>, <<"will", "fix">>, <<"guaranteed", "to", "work">>}, FALSE, "none", {}),
    Pat({<<"never", "see", "a", "doctor">>, <<"don't", "need", "medical", "care">>},
        FALSE, "none", {}),
    Pat({<<"instead", "of", "seeing", "doctor">>, <<"replace", "medical", "treatment">>},
        FALSE, "none", {}) >>

warning_patterns == <<
    Pat({<<"should", "take">>, <<"recommended", "dose">>, <<"try", "taking">>}, FALSE, "none", {}),
    Pat({<<"probably">>, <<"likely">>, <<"might", "be">>, <<"could", "be">>}, FALSE, "one",
        W({"disease", "condition", "syndrome"})),
    Pat({<<"home", "remedy">>, <<"natural", "cure">>, <<"alternative", "to", "medicine">>},
        FALSE, "none", {}),
    Pat({<<"self-treat">>, <<"treat", "yourself">>, <<"manage", "on", "your", "own">>},
        FALSE, "none", {}),
    Pat({<<"medical", "advice">>, <<"diagnosis">>, <<"treatment", "plan">>}, FALSE, "none", {}) >>

emergency_indicators == <<
    Pat({<<"call", "911">>, <<"emergency", "room">>, <<"immediate", "medical", "attention">>},
        FALSE, "none", {}),
    Pat({<<"life-threatening">>, <<"critical", "condition">>, <<"urgent", "care">>},
        FALSE, "none", {}),
    Pat({<<"heart", "attack">>, <<"stroke">>, <<"severe", "allergic", "reaction">>},
        FALSE, "none", {}) >>

required_disclaimers == <<"consult", "healthcare", "professional", "doctor", "physician">>

\* self.disclaimers
disclaimers(kind) ==
    CASE kind = "general" ->
            <<"This", "information", "is", "for", "educational", "purposes", "only", "and",
              "should", "not", "replace", "professional", "medical", "advice", "Please",
              "consult", "a", "healthcare", "provider", "for", "personalized", "guidance">>
      [] kind = "medication" ->
            <<"Medication", "information", "provided", "is", "general", "in", "nature",
              "Always", "follow", "your", "doctor's", "instructions", "and", "consult", "a",
              "pharmacist", "or", "physician", "before", "making", "any", "changes", "to",
              "your", "medication", "regimen">>
      [] kind = "symptom" ->
            <<"Symptom", "information", "is", "provided", "for", "general", "awareness",
              "only", "For", "accurate", "diagnosis", "and", "treatment", "please", "consult",
              "a", "qualified", "healthcare", "professional">>
      [] kind = "emergency" ->
            <<"If", "you're", "experiencing", "a", "medical", "emergency", "please", "call",
              "emergency", "services", "immediately", "911", "in", "US", "999", "in", "UK",
              "112", "in", "EU", "or", "go", "to", "the", "nearest", "emergency", "room">>
      [] kind = "chronic" ->
            <<"Management", "of", "chronic", "conditions", "requires", "ongoing", "medical",
              "supervision", "This", "information", "supplements", "but", "does", "not",
              "replace", "your", "healthcare", "team's", "guidance">>
      [] kind = "mental_health" ->
            <<"Mental", "health", "support", "information", "is", "provided", "for",
              "general", "guidance", "For", "professional", "mental", "health", "care",
              "please", "consult", "a", "licensed", "therapist", "or", "counselor", "In",
              "crisis", "situations", "contact", "emergency", "services", "or", "a", "crisis",
              "helpline">>

\* the words that open an appended disclaimer: "\n\n(warning sign) **Medical Disclaimer:** "
DisclaimerMarker == <<"Medical", "Disclaimer">>

_get_safe_fallback_response ==
    <<"I'm", "unable", "to", "provide", "specific", "medical", "advice", "for", "your",
      "query", "For", "your", "safety", "and", "to", "get", "accurate", "information",
      "please", "consult", "a", "qualified", "healthcare", "professional", "who", "can",
      "properly", "assess", "your", "individual", "situation", "and", "provide",
      "personalized", "guidance">> \o DisclaimerMarker \o disclaimers("general")

_contains_critical_unsafe_content(response) ==
    \E n \in DOMAIN critical_unsafe_patterns : MatchesPattern(response, critical_unsafe_patterns[n])

_contains_warning_patterns(response) ==
    \E n \in DOMAIN warning_patterns : MatchesPattern(response, warning_patterns[n])

_contains_emergency_indicators(response) ==
    \E n \in DOMAIN emergency_indicators : MatchesPattern(response, emergency_indicators[n])

\* `keyword in response` for a one-word keyword
TextContains(t, k) == \E i \in 1..Len(t) : WordContains(t[i], k)

\* the disclaimer check satisfied by a single keyword
_has_appropriate_disclaimer_one(response) ==
    Cardinality({n \in DOMAIN required_disclaimers :
                    TextContains(response, required_disclaimers[n])}) >= 1

_has_appropriate_disclaimer(response) ==
    Cardinality({n \in DOMAIN required_disclaimers :
                    TextContains(response, required_disclaimers[n])}) >= 2

\* re.sub(\b(phrases)\b, repl, t, flags=re.IGNORECASE), scanning from word i
RECURSIVE ReSub(_, _, _, _)
ReSub(t, i, phrases, repl) ==
    IF i > Len(t) THEN <<>>
    ELSE IF \E ph \in phrases : PhraseAt(t, i, ph, FALSE)
         THEN LET ph == CHOOSE x \in phrases : PhraseAt(t, i, x, FALSE)
              IN  repl \o ReSub(t, i + Len(ph), phrases, repl)
         ELSE <<t[i]>> \o ReSub(t, i + 1, phrases, repl)

_add_safety_qualifiers(response) ==
    LET first == ReSub(response, 1, {<<"you", "should">>, <<"recommended">>, <<"try">>},
                       <<"you", "might", "consider", "discussing", "with", "your", "doctor">>)
    IN  ReSub(first, 1, {<<"you", "have">>, <<"diagnosed", "with">>, <<"condition", "is">>},
              <<"symptoms", "may", "suggest", "consult", "a", "doctor", "for", "proper",
                "diagnosis">>)

\* `word in query_type_lower` for the query type tags
TypeContains(query_type_lower, word) ==
    <<query_type_lower, word>> \in
        { <<"medication_info", "medication">>, <<"medication", "medication">>,
          <<"drug_interaction", "drug">>, <<"symptom_check", "symptom">>,
          <<"symptom", "symptom">>, <<"emergency", "emergency">>,
          <<"chronic_care", "chronic">>, <<"chronic", "chronic">>,
          <<"mental_health", "mental">> }

_add_disclaimer(response, query_type) ==
    LET disclaimer_type ==
            IF query_type = None \/ query_type = "" THEN "general"
            ELSE IF TypeContains(query_type, "medication") \/ TypeContains(query_type, "drug")
                 THEN "medication"
            ELSE IF TypeContains(query_type, "symptom") THEN "symptom"
            ELSE IF TypeContains(query_type, "emergency") THEN "emergency"
            ELSE IF TypeContains(query_type, "chronic") THEN "chronic"
            ELSE IF TypeContains(query_type, "mental") THEN "mental_health"
            ELSE "general"
    IN  response \o DisclaimerMarker \o disclaimers(disclaimer_type)

_enhance_emergency_response(response) ==
    LET emergency_prefix == <<"MEDICAL", "EMERGENCY">>
        emergency_suffix ==
            <<"IMMEDIATE", "ACTIONS", "Call", "emergency", "services", "now", "911", "999",
              "112", "Do", "not", "delay", "seeking", "professional", "medical", "help",
              "Follow", "emergency", "responder", "instructions", "Stay", "calm", "and",
              "seek", "immediate", "assistance">>
    IN  emergency_prefix \o response \o emergency_suffix

-----------------------------------------------------------------------------
(* Source names: character sequences *)

\* str.lower() on a character
LowerChar(c) ==
    CASE c = "A" -> "a"
      [] c = "B" -> "b"
      [] c = "C" -> "c"
      [] c = "D" -> "d"
      [] c = "E" -> "e"
      [] c = "F" -> "f"
      [] c = "G" -> "g"
      [] c = "H" -> "h"
      [] c = "I" -> "i"
      [] c = "J" -> "j"
      [] c = "K" -> "k"
      [] c = "L" -> "l"
      [] c = "M" -> "m"
      [] c = "N" -> "n"
      [] c = "O" -> "o"
      [] c = "P" -> "p"
      [] c = "Q" -> "q"
      [] c = "R" -> "r"
      [] c = "S" -> "s"
      [] c = "T" -> "t"
      [] c = "U" -> "u"
      [] c = "V" -> "v"
      [] c = "W" -> "w"
      [] c = "X" -> "x"
      [] c = "Y" -> "y"
      [] c = "Z" -> "z"
      [] OTHER -> c

\* str.lower() on a name
LowerName(n) == [i \in 1..Len(n) |-> LowerChar(n[i])]

\* Python's `c in n` on strings: c is a contiguous part of n
IsSubstring(c, n) ==
    \E i \in 0..(Len(n) - Len(c)) : SubSeq(n, i + 1, i + Len(c)) = c

Name_internal_kb == <<"i", "n", "t", "e", "r", "n", "a", "l", "_", "k", "b">>

Name_CDC == <<"C", "D", "C">>

Name_WHO == <<"W", "H", "O">>

Name_DrugBank == <<"D", "r", "u", "g", "B", "a", "n", "k">>

Name_MedlinePlus == <<"M", "e", "d", "l", "i", "n", "e", "P", "l", "u", "s">>

Name_EmergencyProtocol == <<"E", "m", "e", "r", "g", "e", "n", "c", "y", " ", "P", "r", "o", "t", "o", "c", "o", "l">>

\* the default source of a match without source metadata
Name_unknown == <<"u", "n", "k", "n", "o", "w", "n">>

\* credible_sources of _verify_sources
credible_sources == <<Name_internal_kb, Name_CDC, Name_WHO, Name_DrugBank, Name_MedlinePlus,
                      Name_EmergencyProtocol>>

\* a source attribution {"source": name, "confidence": conf}; conf = Absent
\* when the record has no "confidence" key
Source(name, conf) == [source |-> name, confidence |-> conf]

Absent == 0 - 1

\* source.get("confidence", default)
GetConfidence(source, default) ==
    IF source.confidence = Absent THEN default ELSE source.confidence

\* any(credible in source_name for credible in credible_sources), source_name lower-cased
IsCredible(source) ==
    LET source_name == LowerName(source.source)
    IN  \E n \in DOMAIN credible_sources : IsSubstring(credible_sources[n], source_name)

\* the loop of _verify_sources from source i on, verified_count counted so far
RECURSIVE VerifyLoop(_, _, _)
VerifyLoop(sources, i, verified_count) ==
    IF i > Len(sources)
    THEN 2 * verified_count >= Len(sources)
    ELSE LET count == IF IsCredible(sources[i]) THEN verified_count + 1 ELSE verified_count
         IN  IF GetConfidence(sources[i], Fx(0)) < Fx(70)
             THEN FALSE
             ELSE VerifyLoop(sources, i + 1, count)

_verify_sources(sources) ==
    IF sources = <<>> THEN FALSE ELSE VerifyLoop(sources, 1, 0)

RECURSIVE SumConfidence(_, _)
SumConfidence(sources, default) ==
    IF sources = <<>> THEN 0
    ELSE GetConfidence(Head(sources), default) + SumConfidence(Tail(sources), default)

\* "medical disclaimer" in response.lower()
HasDisclaimerMarker(response) ==
    \E i \in 1..(Len(response) - 1) :
        /\ LowerWord(response[i]) = "medical"
        /\ StartsWith(LowerWord(response[i + 1]), "disclaimer")

\* the adjustments with WARNING raised instead of lowered
level_adjustments_warning_raised(level) ==
    CASE level = "safe"      -> Fx(0)
      [] level = "warning"   -> Fx(10)
      [] level = "unsafe"    -> 0 - Fx(80)
      [] level = "emergency" -> Fx(20)
      [] OTHER               -> 0 - Fx(20)

level_adjustments(level) ==
    CASE level = "safe"      -> Fx(0)
      [] level = "warning"   -> 0 - Fx(10)
      [] level = "unsafe"    -> 0 - Fx(80)
      [] level = "emergency" -> Fx(20)
      [] OTHER               -> 0 - Fx(20)

\* the score returned without the final clamp
_calculate_confidence_score_unclamped(response, sources, validation_level) ==
    LET base_score == Fx(80)
        score1 == base_score + level_adjustments(validation_level)
        score2 == IF sources # <<>>
                  THEN (score1 + (SumConfidence(sources, Fx(50)) \div Len(sources))) \div 2
                  ELSE score1 - Fx(10)
    IN  IF HasDisclaimerMarker(response) THEN score2 + Fx(5) ELSE score2

_calculate_confidence_score(response, sources, validation_level) ==
    LET base_score == Fx(80)
        score1 == base_score + level_adjustments(validation_level)
        score2 == IF sources # <<>>
                  THEN (score1 + (SumConfidence(sources, Fx(50)) \div Len(sources))) \div 2
                  ELSE score1 - Fx(10)
        score3 == IF HasDisclaimerMarker(response) THEN score2 + Fx(5) ELSE score2
    IN  Max(Fx(0), Min(Fx(100), score3))

ValidationResult(level, is_safe, modified_response, warnings, sources_verified, confidence_score, recommendations) ==
    [level |-> level, is_safe |-> is_safe, modified_response |-> modified_response,
     warnings |-> warnings, sources_verified |-> sources_verified,
     confidence_score |-> confidence_score, recommendations |-> recommendations]

\* the result of the critical-unsafe branch
UnsafeResult ==
    ValidationResult("unsafe", FALSE, _get_safe_fallback_response,
        <<"Response contained potentially harmful medical advice">>, FALSE, Fx(0),
        <<"Human medical professional consultation required">>)

\* the emergency-indicator branch with a computed score in place of the fixed 1.0
EmergencyResult_scored(response) ==
    ValidationResult("emergency", TRUE, _enhance_emergency_response(response),
        <<"Emergency situation detected">>, TRUE,
        _calculate_confidence_score(response, <<>>, "emergency"),
        <<"Immediate medical attention required">>)

\* the result of the emergency-indicator branch
EmergencyResult(response) ==
    ValidationResult("emergency", TRUE, _enhance_emergency_response(response),
        <<"Emergency situation detected">>, TRUE, Fx(100),
        <<"Immediate medical attention required">>)

\* the rest of the try block: warning patterns, source verification, disclaimer, score
CascadeResult(response, sources, query_type) ==
    LET response_lower == LowerText(response)
        warned == _contains_warning_patterns(response_lower)
        modified1 == IF warned THEN _add_safety_qualifiers(response) ELSE response
        warning_level == IF warned THEN "warning" ELSE "safe"
        warnings1 == IF warned THEN <<"Response required safety modifications">> ELSE <<>>
        recommendations1 ==
            IF warned THEN <<"Added medical disclaimers and safety qualifiers">> ELSE <<>>
        verified == IF sources # <<>> THEN _verify_sources(sources) ELSE FALSE
        unverified == sources # <<>> /\ ~verified
        warnings2 == IF unverified
                     THEN Append(warnings1, "Source verification incomplete")
                     ELSE warnings1
        recommendations2 ==
            IF unverified
            THEN Append(recommendations1, "Verify source credibility and recency")
            ELSE recommendations1
        has_disclaimer == _has_appropriate_disclaimer(response_lower)
        modified2 == IF has_disclaimer THEN modified1
                     ELSE _add_disclaimer(modified1, query_type)
        recommendations3 ==
            IF has_disclaimer THEN recommendations2
            ELSE Append(recommendations2, "Added appropriate medical disclaimer")
    IN  ValidationResult(warning_level, TRUE, modified2, warnings2, verified,
            _calculate_confidence_score(modified2, sources, warning_level),
            recommendations3)

\* the try block with the emergency-indicator check ahead of the critical check
ValidateText_emergency_first(response, sources, query_type) ==
    LET response_lower == LowerText(response)
    IN  IF _contains_emergency_indicators(response_lower) THEN EmergencyResult(response)
        ELSE IF _contains_critical_unsafe_content(response_lower) THEN UnsafeResult
        ELSE CascadeResult(response, sources, query_type)

\* validate_response on a response that is a text: the body of the try block
ValidateText(response, sources, query_type) ==
    LET response_lower == LowerText(response)
    IN  IF _contains_critical_unsafe_content(response_lower) THEN UnsafeResult
        ELSE IF _contains_emergency_indicators(response_lower) THEN EmergencyResult(response)
        ELSE CascadeResult(response, sources, query_type)

\* validate_response: an absent response raises in response.lower(), and the
\* except branch returns the fallback
\* a sources entry that is a string where a dictionary is expected
NotARecord == [source |-> <<"<", "s", "t", "r", ">">>, confidence |-> Absent]

\* the try block raises: response.lower() on an absent response, or source.get
\* on an entry that is no dictionary, reached in _verify_sources or in
\* _calculate_confidence_score once the two terminal checks have passed
validate_raises(response, sources, query_type) ==
    \/ response = NoneText
    \/ /\ ~_contains_critical_unsafe_content(LowerText(response))
       /\ ~_contains_emergency_indicators(LowerText(response))
       /\ \E i \in 1..Len(sources) : sources[i] = NotARecord

\* the result of the except branch
ExceptResult ==
    ValidationResult("unsafe", FALSE, _get_safe_fallback_response,
        <<"Validation error">>, FALSE, Fx(0), <<"Manual review required">>)

\* validate_response without its except branch: an error leaves the caller without a result
validate_response_uncaught(response, sources, query_type) ==
    IF validate_raises(response, sources, query_type)
    THEN ValidationResult(None, FALSE, NoneText, <<>>, FALSE, 0, <<>>)
    ELSE ValidateText(response, sources, query_type)

validate_response(response, sources, query_type) ==
    IF validate_raises(response, sources, query_type)
    THEN ExceptResult
    ELSE ValidateText(response, sources, query_type)

-----------------------------------------------------------------------------
(* rag_core/rag_router.py: retrieval and answer synthesis *)

\* a retrieved document (content, last_updated and metadata are not read by any decision)
MedicalDocument(doc_id, source, category, confidence) ==
    [doc_id |-> doc_id, source |-> source, category |-> category, confidence |-> confidence]

RetrievalResult(document, relevance_score) ==
    [document |-> document, relevance_score |-> relevance_score]

_get_emergency_response ==
    << RetrievalResult(
           MedicalDocument("emergency_protocol", Name_EmergencyProtocol, "emergency", Fx(100)),
           Fx(100)) >>

\* boost_map: ten times the boost factor of a document category for a query type, 0 when none
boost_map(query_type, category) ==
    CASE query_type = "drug_interaction" /\ category = "interaction"       -> 12
      [] query_type = "drug_interaction" /\ category = "medication"        -> 11
      [] query_type = "symptom_check"    /\ category = "symptom"           -> 12
      [] query_type = "symptom_check"    /\ category = "chronic_condition" -> 11
      [] query_type = "medication_info"  /\ category = "medication"        -> 12
      [] query_type = "medication_info"  /\ category = "interaction"       -> 11
      [] query_type = "chronic_care"     /\ category = "chronic_condition" -> 12
      [] query_type = "chronic_care"     /\ category = "symptom"           -> 11
      [] query_type = "mental_health"    /\ category = "mental_health"     -> 12
      [] OTHER -> 0

\* the boost of one result without the cap at 1.0
Boost_uncapped(r, query_type) ==
    LET f == boost_map(query_type, r.document.category)
    IN  IF f = 0 THEN r
        ELSE [r EXCEPT !.relevance_score = (r.relevance_score * f) \div 10]

\* the loop body of _apply_type_specific_filtering on one result
Boost(r, query_type) ==
    LET f == boost_map(query_type, r.document.category)
    IN  IF f = 0 THEN r
        ELSE [r EXCEPT !.relevance_score = Min(Fx(100), (r.relevance_score * f) \div 10)]

\* r put into the descending list, behind the results that score no less
RECURSIVE InsertDescending(_, _)
InsertDescending(sorted, r) ==
    IF sorted = <<>> THEN <<r>>
    ELSE IF Head(sorted).relevance_score >= r.relevance_score
         THEN <<Head(sorted)>> \o InsertDescending(Tail(sorted), r)
         ELSE <<r>> \o sorted

\* results.sort(key=relevance_score, reverse=True): stable
RECURSIVE SortDescending(_)
SortDescending(results) ==
    IF results = <<>> THEN <<>>
    ELSE InsertDescending(SortDescending(SubSeq(results, 1, Len(results) - 1)),
                          results[Len(results)])

\* the boosts applied without the final sort
_apply_type_specific_filtering_unsorted(results, query_type) ==
    [i \in 1..Len(results) |-> Boost(results[i], query_type)]

_apply_type_specific_filtering(results, query_type) ==
    SortDescending([i \in 1..Len(results) |-> Boost(results[i], query_type)])

\* retrieve_context searching the vector store for an emergency decision too
retrieve_context_no_bypass(q, decision, store) ==
    IF store.failed THEN <<>>
    ELSE _apply_type_specific_filtering(store.results, decision.query_type)

\* retrieve_context; store is what vector_store.retrieve does for this call:
\* [failed |-> TRUE] when the search or the post-processing raises, else the matches
retrieve_context(q, decision, store) ==
    IF decision.emergency_flag THEN _get_emergency_response
    ELSE IF store.failed THEN <<>>
    ELSE _apply_type_specific_filtering(store.results, decision.query_type)

RAGResponse(answer, sources, confidence, query_type, emergency_detected) ==
    [answer |-> answer, sources |-> sources, confidence |-> confidence,
     query_type |-> query_type, emergency_detected |-> emergency_detected]

\* the source attribution generate_rag_response builds from one result
Attribution(r) ==
    [source |-> r.document.source, category |-> r.document.category,
     confidence |-> r.document.confidence, relevance |-> r.relevance_score]

RECURSIVE SumRelevance(_)
SumRelevance(context) ==
    IF context = <<>> THEN 0
    ELSE Head(context).relevance_score + SumRelevance(Tail(context))

RECURSIVE SumDocConfidence(_)
SumDocConfidence(context) ==
    IF context = <<>> THEN 0
    ELSE Head(context).document.confidence + SumDocConfidence(Tail(context))

NoContextAnswer ==
    <<"I", "couldn't", "find", "specific", "information", "about", "your", "query", "Please",
      "consult", "a", "healthcare", "professional">>

GenerationErrorAnswer ==
    <<"I'm", "unable", "to", "provide", "a", "response", "at", "this", "time", "Please",
      "consult", "a", "healthcare", "professional">>

EmergencyBanner ==
    <<"MEDICAL", "EMERGENCY", "DETECTED", "Please", "call", "emergency", "services",
      "immediately", "911", "in", "US", "999", "in", "UK", "112", "in", "EU", "or", "go", "to",
      "the", "nearest", "emergency", "room", "Do", "not", "delay", "seeking", "immediate",
      "medical", "attention">>

\* generate_rag_response with the emergency return ahead of the empty-context return
generate_rag_response_emergency_first(q, context, query_type, llm) ==
    IF query_type = "emergency"
    THEN RAGResponse(EmergencyBanner, <<Source(Name_EmergencyProtocol, Fx(100))>>, Fx(100),
                     query_type, TRUE)
    ELSE IF context = <<>>
    THEN RAGResponse(NoContextAnswer, <<>>, Fx(10), query_type, FALSE)
    ELSE IF llm.raised
    THEN RAGResponse(GenerationErrorAnswer, <<>>, Fx(10), query_type, FALSE)
    ELSE LET used == SubSeq(context, 1, Min(3, Len(context)))
             sources == [i \in 1..Len(used) |-> Attribution(used[i])]
             avg_relevance == SumRelevance(context) \div Len(context)
             avg_source_confidence == SumDocConfidence(context) \div Len(context)
             overall_confidence == (avg_relevance + avg_source_confidence) \div 2
         IN  RAGResponse(llm.text, sources, overall_confidence, query_type, FALSE)

\* generate_rag_response without the emergency return: the banner is left to the generation
generate_rag_response_no_banner(q, context, query_type, llm) ==
    IF context = <<>>
    THEN RAGResponse(NoContextAnswer, <<>>, Fx(10), query_type, FALSE)
    ELSE IF llm.raised
    THEN RAGResponse(GenerationErrorAnswer, <<>>, Fx(10), query_type, FALSE)
    ELSE LET used == SubSeq(context, 1, Min(3, Len(context)))
             sources == [i \in 1..Len(used) |-> Attribution(used[i])]
             avg_relevance == SumRelevance(context) \div Len(context)
             avg_source_confidence == SumDocConfidence(context) \div Len(context)
             overall_confidence == (avg_relevance + avg_source_confidence) \div 2
         IN  RAGResponse(llm.text, sources, overall_confidence, query_type, FALSE)

\* generate_rag_response; llm is what llm_generate_func does when called:
\* [raised |-> TRUE] or the text it returns
generate_rag_response(q, context, query_type, llm) ==
    IF context = <<>>
    THEN RAGResponse(NoContextAnswer, <<>>, Fx(10), query_type, FALSE)
    ELSE IF query_type = "emergency"
    THEN RAGResponse(EmergencyBanner, <<Source(Name_EmergencyProtocol, Fx(100))>>, Fx(100),
                     query_type, TRUE)
    ELSE IF llm.raised
    THEN RAGResponse(GenerationErrorAnswer, <<>>, Fx(10), query_type, FALSE)
    ELSE LET used == SubSeq(context, 1, Min(3, Len(context)))
             sources == [i \in 1..Len(used) |-> Attribution(used[i])]
             avg_relevance == SumRelevance(context) \div Len(context)
             avg_source_confidence == SumDocConfidence(context) \div Len(context)
             overall_confidence == (avg_relevance + avg_source_confidence) \div 2
         IN  RAGResponse(llm.text, sources, overall_confidence, query_type, FALSE)

-----------------------------------------------------------------------------
(* rasa/actions/actions.py: get_llm_response *)

LLMStatusErrorAnswer ==
    <<"I", "recommend", "consulting", "a", "healthcare", "professional", "for", "accurate",
      "information">>

LLMExceptionAnswer ==
    <<"I'm", "unable", "to", "respond", "at", "this", "time", "Please", "consult", "a",
      "doctor">>

\* get_llm_response; api is what the completion service does: status "200"
\* with a content (NoneText for a null content), another status, or an
\* exception of requests.post (time-out included)
get_llm_response(api) ==
    IF api.status = "exception" THEN LLMExceptionAnswer
    ELSE IF api.status = "200" THEN api.content
    ELSE LLMStatusErrorAnswer

-----------------------------------------------------------------------------
(* rag/augmentation/augmenter.py and rag/generation/generator.py *)

\* a metadata dictionary: the keys it holds and their values
Metadata(keys, sources, last_updated) ==
    [keys |-> keys, sources |-> sources, last_updated |-> last_updated]

\* the empty dictionary
NoMetadata == Metadata({}, <<>>, None)

\* a document of rag/ingestion/document_schema.py, as far as augment reads it
SchemaDocument(source, confidence, last_updated) ==
    [source |-> source, confidence |-> confidence, last_updated |-> last_updated]

\* the order of the ISO dates used, None below all of them
DateRank(d) == CASE d = "2024-01-01" -> 2 [] d = "2023-05-01" -> 1 [] OTHER -> 0

\* max((doc.last_updated for doc in documents if doc.last_updated), default=None)
RECURSIVE MaxLastUpdated(_)
MaxLastUpdated(documents) ==
    IF documents = <<>> THEN None
    ELSE LET rest == MaxLastUpdated(Tail(documents))
             d == Head(documents).last_updated
         IN  IF DateRank(d) > DateRank(rest) THEN d ELSE rest

\* MedicalAugmenter.augment
augment(q, documents) ==
    IF documents = <<>>
    THEN [prompt |-> "no_relevant_data", metadata |-> NoMetadata]
    ELSE [prompt |-> "context",
          metadata |-> Metadata({"sources", "last_updated"},
                          [i \in 1..Len(documents) |->
                              Source(documents[i].source, documents[i].confidence)],
                          MaxLastUpdated(documents))]

\* "2024" in metadata["last_updated"]
Contains2024(d) == d = "2024-01-01"

\* MedicalGenerator._estimate_confidence: a KeyError on a key the metadata lacks, or the estimate
_estimate_confidence(response, metadata) ==
    IF "sources" \notin metadata.keys THEN [raised |-> TRUE, value |-> 0]
    ELSE IF metadata.sources = <<>> THEN [raised |-> FALSE, value |-> Fx(50)]
    ELSE IF "last_updated" \notin metadata.keys THEN [raised |-> TRUE, value |-> 0]
    ELSE LET recency_bonus ==
                 IF metadata.last_updated # None /\ Contains2024(metadata.last_updated)
                 THEN Fx(20) ELSE Fx(0)
         IN  [raised |-> FALSE, value |-> Min(Fx(100), Fx(70) + recency_bonus)]

\* MedicalGenerator.generate; content is response.content of self.llm.invoke
generate(augmented, content) ==
    LET confidence == _estimate_confidence(content, augmented.metadata)
    IN  [raised |-> confidence.raised,
         output |-> [response |-> content, metadata |-> augmented.metadata,
                     confidence |-> confidence.value]]

-----------------------------------------------------------------------------
(* Inputs *)

QueryVocab == {"chest", "pain", "Urgent", "mix", "drug", "fever", "dosage", "diabetes",
               "anxiety", "test", "hello"}

\* the example queries of rag_router.py and of the tests, and two more
SampleQueries == {
    <<"Can", "I", "take", "ibuprofen", "with", "alcohol">>,
    <<"I", "have", "chest", "pain", "and", "shortness", "of", "breath">>,
    <<"What", "are", "the", "side", "effects", "of", "metformin">>,
    <<"How", "to", "manage", "diabetes">>,
    <<"I'm", "feeling", "anxious", "and", "can't", "sleep">>,
    <<"is", "it", "risky", "to", "mix", "these">>,
    <<"I", "need", "help", "immediately">> }

Queries == SeqsUpTo(QueryVocab, MaxWords) \cup SampleQueries

\* upstream intents: absent, empty, the mapped ones and one the mapping lacks
Intents == {None, "", "ask_medication", "symptom_check", "chronic_care", "mental_health",
            "general_health"}

ResponseVocab == {"cure", "quit", "medication", "stroke", "diagnosis", "consult", "doctor"}

\* the example responses of validator.py and of the tests
SampleResponses == {
    <<"You", "should", "stop", "taking", "your", "medication", "immediately">>,
    <<"Stop", "taking", "medication">>,
    <<"You", "might", "have", "diabetes", "Consult", "your", "doctor", "for", "proper",
      "testing">>,
    <<"If", "you're", "having", "chest", "pain", "call", "911", "immediately">>,
    <<"Ibuprofen", "can", "help", "with", "pain", "relief", "Always", "follow", "dosage",
      "instructions">>,
    <<"Call", "911", "for", "chest", "pain">>,
    <<"Safe", "advice">>,
    <<"You", "should", "take", "ibuprofen">> }

Responses == SeqsUpTo(ResponseVocab, MaxWords) \cup SampleResponses \cup {NoneText}

SourceNames == {Name_internal_kb, Name_WHO, Name_unknown}

SourceConfidences == {Fx(69), Fx(70), Fx(100), Absent}

\* sources lists for _verify_sources
SourceLists ==
    SeqsUpTo({Source(n, c) : n \in SourceNames, c \in SourceConfidences}, MaxSources)

\* sources lists for validate_response
ValidatedSourceLists ==
    SeqsUpTo({Source(Name_WHO, Fx(90)), Source(Name_CDC, Fx(80)),
              Source(Name_internal_kb, Fx(70)), Source(Name_unknown, Fx(69))}, MaxSources)

\* QueryType values, and None
QueryTypes == {"emergency", "drug_interaction", "symptom_check", "medication_info",
               "chronic_care", "mental_health", "general_health", "diagnostic", None}

\* the requests of the pipeline
PipelineQueries == SampleQueries \cup {<<"chest", "pain">>, <<"hello">>, NoneText}

PipelineIntents == {None, "ask_medication", "general_health"}

\* what the completion service may answer
ApiOutcomes ==
    {[status |-> "200", content |-> c] :
        c \in {<<"You", "have", "diabetes">>, <<"You", "should", "take", "ibuprofen">>,
               <<"Call", "911", "for", "chest", "pain">>, <<"Safe", "advice">>,
               <<"Please", "consult", "your", "doctor">>, NoneText}}
    \cup {[status |-> "500", content |-> NoneText], [status |-> "exception", content |-> NoneText]}

DocPool == {MedicalDocument("d1", Name_internal_kb, "medication", Fx(90)),
            MedicalDocument("d2", Name_WHO, "symptom", Fx(80)),
            MedicalDocument("d3", Name_unknown, "general", Fx(50))}

Scores == {Fx(50), Fx(90)}

\* the matches vector_store.retrieve may return for (top_k, category_filter):
\* at most top_k, of the category asked for, best first
StoreOutcomes(top_k, category_filter) ==
    {[failed |-> TRUE, results |-> <<>>]} \cup
    {[failed |-> FALSE, results |-> rs] :
        rs \in {x \in SeqsUpTo({RetrievalResult(d, sc) : d \in DocPool, sc \in Scores},
                               Min(top_k, MaxResults)) :
                  /\ \A i \in 1..Len(x) :
                        category_filter = None \/ x[i].document.category = category_filter
                  /\ \A i \in 1..(Len(x) - 1) :
                        x[i].relevance_score >= x[i + 1].relevance_score}}

-----------------------------------------------------------------------------
(* State *)

NoDecision == RoutingDecision(None, 0, None, FALSE, 0, None)

NoResponse == RAGResponse(NoneText, <<>>, 0, None, FALSE)

NoArgs == [response |-> NoneText, sources |-> <<>>, query_type |-> None]

NoValidation == ValidationResult(None, FALSE, NoneText, <<>>, FALSE, 0, <<>>)

\* nothing augmented, nothing generated
NoAugmented == [prompt |-> None, metadata |-> NoMetadata]

NoOutput == [response |-> NoneText, metadata |-> NoMetadata, confidence |-> 0]

\* no search made, no store outcome seen, no completion asked for
NoSearch == [query |-> NoneText, top_k |-> 0, category_filter |-> None]

NoCollab == [store |-> "not_called", llm |-> "not_called", search |-> NoSearch,
             results |-> <<>>, store_state |-> None]

\* the state of the vector store behind an outcome of retrieve
StoreState(store) ==
    IF store.failed THEN "failing"
    ELSE IF store.results = <<>> THEN "empty" ELSE "available"

NoResult == [response |-> NoneText, sources |-> <<>>, query_type |-> None, confidence |-> 0,
             emergency |-> FALSE, warnings |-> <<>>]

\* the requests in flight at the same time, all using the one router and validator
Requests == {1, 2}

\* a request not yet received
NoReq ==
    [pc |-> "idle", query |-> NoneText, decision |-> NoDecision,
     store |-> [failed |-> FALSE, results |-> <<>>], refs |-> <<>>, idx |-> 0,
     api |-> [status |-> "not_called", content |-> NoneText], result |-> NoResult]

\* module initialisation of actions.py: the try block sets vector_store and
\* rag_router, its except branch leaves both None
Init ==
    /\ pc = "idle"
    /\ rag_router \in BOOLEAN
    /\ query = NoneText
    /\ intent = None
    /\ routing_decision = NoDecision
    /\ context_results = <<>>
    /\ rag_response = NoResponse
    /\ draft = NoneText
    /\ v_args = NoArgs
    /\ validation_result = NoValidation
    /\ verify_result = FALSE
    /\ result = NoResult
    /\ collab = NoCollab
    /\ augmented_input = NoAugmented
    /\ output = NoOutput
    /\ reqs = [r \in Requests |-> NoReq]
    /\ heap = <<>>
    /\ calls = <<>>

-----------------------------------------------------------------------------
(* Direct calls of the router and of the validator *)

\* rag_router.classify_query(q, i)
ClassifyCall(q, i) ==
    /\ pc = "idle"
    /\ pc' = "classify_query"
    /\ query' = q
    /\ intent' = i
    /\ routing_decision' = classify_query(q, i)
    /\ calls' = Append(calls, "classify_query")
    /\ UNCHANGED <<reqs, heap, augmented_input, output, collab, rag_router, context_results, rag_response, draft, v_args,
                   validation_result, verify_result, result>>

\* response_validator.validate_response(response, sources, query_type)
ValidateCall(response, sources, query_type) ==
    /\ pc = "idle"
    /\ pc' = "validate_response"
    /\ v_args' = [response |-> response, sources |-> sources, query_type |-> query_type]
    /\ validation_result' = validate_response(response, sources, query_type)
    /\ calls' = Append(calls, "validate_response")
    /\ UNCHANGED <<reqs, heap, augmented_input, output, collab, rag_router, query, intent, routing_decision, context_results, rag_response,
                   draft, verify_result, result>>

\* response_validator._verify_sources(sources)
VerifyCall(sources) ==
    /\ pc = "idle"
    /\ pc' = "_verify_sources"
    /\ v_args' = [response |-> NoneText, sources |-> sources, query_type |-> None]
    /\ verify_result' = _verify_sources(sources)
    /\ calls' = Append(calls, "_verify_sources")
    /\ UNCHANGED <<reqs, heap, augmented_input, output, collab, rag_router, query, intent, routing_decision, context_results, rag_response,
                   draft, validation_result, result>>

\* a constructed router and validator, nothing called yet
InitDirect == Init /\ rag_router

NextClassify == pc = "idle" /\ \E q \in Queries, i \in Intents : ClassifyCall(q, i)

SpecClassify == InitDirect /\ [][NextClassify]_vars

NextValidate ==
    /\ pc = "idle"
    /\ \E response \in Responses, sources \in ValidatedSourceLists, query_type \in QueryTypes :
          ValidateCall(response, sources, query_type)

SpecValidate == InitDirect /\ [][NextValidate]_vars

\* responses of each validation level, with and without disclaimer keywords, and an absent one
ScoreResponses == {<<"Safe", "advice">>, <<"You", "should", "take", "ibuprofen">>, <<"cure">>,
                   <<"Call", "911", "for", "chest", "pain">>,
                   <<"Please", "consult", "your", "doctor">>, NoneText}

\* source confidences inside and outside [0, 1], and a missing one
ScoreConfidences == {0 - Fx(300), Fx(0), Fx(50), Fx(100), Fx(500), Absent}

ScoreSourceLists ==
    SeqsUpTo({Source(Name_internal_kb, c) : c \in ScoreConfidences} \cup {NotARecord},
             MaxSources)

\* validate_response called with sources of any confidence
NextScore ==
    /\ pc = "idle"
    /\ \E response \in ScoreResponses, sources \in ScoreSourceLists,
          query_type \in {None, "medication_info"} :
          ValidateCall(response, sources, query_type)

SpecScore == InitDirect /\ [][NextScore]_vars

NextVerify == pc = "idle" /\ \E sources \in SourceLists : VerifyCall(sources)

SpecVerify == InitDirect /\ [][NextVerify]_vars

-----------------------------------------------------------------------------
(* The four stages called one after the other, as test_rag_system.py composes them *)

\* what the llm_generate_func handed to generate_rag_response does when called
LlmOutcomes ==
    {[raised |-> TRUE, text |-> NoneText]} \cup
    {[raised |-> FALSE, text |-> t] :
        t \in {<<"Mock", "response", "based", "on", "context">>, <<"You", "have", "diabetes">>}}

\* generate_rag_response reaches the call of llm_generate_func
invokes_llm(context, query_type) == context # <<>> /\ query_type # "emergency"

\* routing_decision = rag_router.classify_query(query)
StageClassify(q, i) ==
    /\ pc = "idle"
    /\ pc' = "stage_classified"
    /\ query' = q
    /\ intent' = i
    /\ routing_decision' = classify_query(q, i)
    /\ calls' = Append(calls, "classify_query")
    /\ UNCHANGED <<reqs, heap, augmented_input, output, collab, rag_router, context_results, rag_response, draft, v_args,
                   validation_result, verify_result, result>>

\* the retrieval stage without a try/except around the search: a failure reaches the caller
StageRetrieve_uncaught ==
    /\ pc = "stage_classified"
    /\ \E store \in StoreOutcomes(routing_decision.recommended_k,
                                  routing_decision.category_filter) :
          /\ pc' = IF store.failed /\ ~routing_decision.emergency_flag
                   THEN "raised" ELSE "stage_retrieved"
          /\ context_results' = retrieve_context(query, routing_decision, store)
          /\ collab' = IF routing_decision.emergency_flag
                       THEN [collab EXCEPT !.store_state = StoreState(store)]
                       ELSE [collab EXCEPT
                               !.store = IF store.failed THEN "failed" ELSE "ok",
                               !.search = [query |-> query,
                                           top_k |-> routing_decision.recommended_k,
                                           category_filter |-> routing_decision.category_filter],
                               !.results = store.results,
                               !.store_state = StoreState(store)]
    /\ calls' = IF routing_decision.emergency_flag
                THEN Append(calls, "retrieve_context")
                ELSE calls \o <<"retrieve_context", "vector_store.retrieve">>
    /\ UNCHANGED <<reqs, heap, augmented_input, output, rag_router, query, intent, routing_decision, rag_response, draft, v_args,
                   validation_result, verify_result, result>>

\* context_results = rag_router.retrieve_context(query, routing_decision); the
\* vector store is searched only when the decision is no emergency
StageRetrieve ==
    /\ pc = "stage_classified"
    /\ pc' = "stage_retrieved"
    /\ \E store \in StoreOutcomes(routing_decision.recommended_k,
                                  routing_decision.category_filter) :
          /\ context_results' = retrieve_context(query, routing_decision, store)
          /\ collab' = IF routing_decision.emergency_flag
                       THEN [collab EXCEPT !.store_state = StoreState(store)]
                       ELSE [collab EXCEPT
                               !.store = IF store.failed THEN "failed" ELSE "ok",
                               !.search = [query |-> query,
                                           top_k |-> routing_decision.recommended_k,
                                           category_filter |-> routing_decision.category_filter],
                               !.results = store.results,
                               !.store_state = StoreState(store)]
    /\ calls' = IF routing_decision.emergency_flag
                THEN Append(calls, "retrieve_context")
                ELSE calls \o <<"retrieve_context", "vector_store.retrieve">>
    /\ UNCHANGED <<reqs, heap, augmented_input, output, rag_router, query, intent, routing_decision, rag_response, draft, v_args,
                   validation_result, verify_result, result>>

\* rag_response = rag_router.generate_rag_response(query, context_results,
\*                    routing_decision.query_type, llm_generate_func)
StageGenerate ==
    /\ pc = "stage_retrieved"
    /\ pc' = "stage_generated"
    /\ \E llm \in LlmOutcomes :
          /\ rag_response' = generate_rag_response(query, context_results,
                                 routing_decision.query_type, llm)
          /\ collab' = IF invokes_llm(context_results, routing_decision.query_type)
                       THEN [collab EXCEPT !.llm = IF llm.raised THEN "raised" ELSE "returned"]
                       ELSE collab
    /\ draft' = rag_response'.answer
    /\ calls' = IF invokes_llm(context_results, routing_decision.query_type)
                THEN calls \o <<"generate_rag_response", "llm_generate_func">>
                ELSE Append(calls, "generate_rag_response")
    /\ UNCHANGED <<reqs, heap, augmented_input, output, rag_router, query, intent, routing_decision, context_results, v_args,
                   validation_result, verify_result, result>>

\* validation_result = validator.validate_response(rag_response.answer,
\*                         rag_response.sources, routing_decision.query_type.value)
StageValidate ==
    /\ pc = "stage_generated"
    /\ pc' = "stage_validated"
    /\ v_args' = [response |-> rag_response.answer, sources |-> rag_response.sources,
                  query_type |-> routing_decision.query_type]
    /\ validation_result' = validate_response(rag_response.answer, rag_response.sources,
                                              routing_decision.query_type)
    /\ calls' = Append(calls, "validate_response")
    /\ UNCHANGED <<reqs, heap, augmented_input, output, collab, rag_router, query, intent, routing_decision, context_results,
                   rag_response, draft, verify_result, result>>

\* documents handed to the augmenter
SchemaDocuments ==
    {SchemaDocument(n, Fx(90), d) : n \in {Name_WHO, Name_CDC},
                                    d \in {None, "2023-05-01", "2024-01-01"}}

\* the augmented input of test_generate_response: a metadata with a sources list only
TestAugmentedInput ==
    [prompt |-> "Test prompt",
     metadata |-> Metadata({"sources"}, <<Source(<<"t", "e", "s", "t">>, Fx(90))>>, None)]

\* augmented = augmenter.augment(query, documents)
AugmentCall(q, documents) ==
    /\ pc = "idle"
    /\ pc' = "augment"
    /\ query' = q
    /\ augmented_input' = augment(q, documents)
    /\ calls' = Append(calls, "augment")
    /\ UNCHANGED <<reqs, heap, output, collab, rag_router, intent, routing_decision, context_results,
                   rag_response, draft, v_args, validation_result, verify_result, result>>

\* the test builds its augmented input by hand
TestInput ==
    /\ pc = "idle"
    /\ pc' = "augment"
    /\ augmented_input' = TestAugmentedInput
    /\ UNCHANGED <<reqs, heap, output, collab, rag_router, query, intent, routing_decision,
                   context_results, rag_response, draft, v_args, validation_result,
                   verify_result, result, calls>>

\* generator.generate(augmented): the completion is asked first, then the
\* confidence is estimated; a KeyError of the estimate reaches the caller
GeneratorCall(content) ==
    /\ pc = "augment"
    /\ LET g == generate(augmented_input, content)
       IN  /\ pc' = IF g.raised THEN "generate_raised" ELSE "generate"
           /\ output' = IF g.raised THEN output ELSE g.output
    /\ collab' = [collab EXCEPT !.llm = "returned"]
    /\ calls' = calls \o <<"generate", "llm.invoke">>
    /\ UNCHANGED <<reqs, heap, augmented_input, rag_router, query, intent, routing_decision,
                   context_results, rag_response, draft, v_args, validation_result,
                   verify_result, result>>

NextGenerator ==
    \/ \E q \in {<<"diabetes", "tips">>, <<"no", "data", "query">>},
          documents \in SeqsUpTo(SchemaDocuments, MaxResults) : AugmentCall(q, documents)
    \/ TestInput
    \/ \E content \in {<<"Test", "response">>, <<"Safe", "advice">>} : GeneratorCall(content)

SpecGenerator == InitDirect /\ [][NextGenerator]_vars

\* one document of each category the boost table names, and one of a category it lacks
CategoryPool == {MedicalDocument("c1", Name_internal_kb, c, Fx(90)) :
                    c \in {"interaction", "medication", "symptom", "chronic_condition",
                           "mental_health", "general"}}

\* similarity scores of the cosine index, the upper end included
BoostScores == {Fx(50), Fx(90), Fx(100)}

\* result lists as vector_store.retrieve returns them
ResultLists ==
    SeqsUpTo({RetrievalResult(d, sc) : d \in CategoryPool, sc \in BoostScores}, MaxResults)

\* rag_router._apply_type_specific_filtering(results, query_type)
FilterCall(results, query_type) ==
    /\ pc = "idle"
    /\ pc' = "_apply_type_specific_filtering"
    /\ context_results' = _apply_type_specific_filtering(results, query_type)
    /\ collab' = [collab EXCEPT !.results = results]
    /\ v_args' = [response |-> NoneText, sources |-> <<>>, query_type |-> query_type]
    /\ calls' = Append(calls, "_apply_type_specific_filtering")
    /\ UNCHANGED <<reqs, heap, augmented_input, output, rag_router, query, intent, routing_decision, rag_response, draft,
                   validation_result, verify_result, result>>

NextFilter ==
    /\ pc = "idle"
    /\ \E results \in ResultLists, query_type \in QueryTypes \ {None} :
          FilterCall(results, query_type)

SpecFilter == InitDirect /\ [][NextFilter]_vars

\* the context lists generate_rag_response may be handed
Contexts == SeqsUpTo({RetrievalResult(d, sc) : d \in DocPool, sc \in Scores}, MaxResults)

\* ranked lists longer than the three results the prompt uses
LongContexts ==
    {c \in SeqsUpTo({RetrievalResult(MedicalDocument("d1", Name_internal_kb, "medication", Fx(90)), Fx(90)),
                     RetrievalResult(MedicalDocument("d3", Name_unknown, "general", Fx(50)), Fx(50))},
                    MaxRetrieved) : Len(c) > MaxResults}

\* rag_router.generate_rag_response(query, context, query_type, llm_generate_func)
GenerateCall(context, query_type, llm) ==
    /\ pc = "idle"
    /\ pc' = "generate_rag_response"
    /\ context_results' = context
    /\ rag_response' = generate_rag_response(query, context, query_type, llm)
    /\ collab' = IF invokes_llm(context, query_type)
                 THEN [collab EXCEPT !.llm = IF llm.raised THEN "raised" ELSE "returned"]
                 ELSE collab
    /\ calls' = IF invokes_llm(context, query_type)
                THEN calls \o <<"generate_rag_response", "llm_generate_func">>
                ELSE Append(calls, "generate_rag_response")
    /\ UNCHANGED <<reqs, heap, augmented_input, output, rag_router, query, intent, routing_decision, draft, v_args,
                   validation_result, verify_result, result>>

NextGenerate ==
    /\ pc = "idle"
    /\ \E context \in Contexts \cup LongContexts, query_type \in QueryTypes \ {None},
          llm \in LlmOutcomes :
          GenerateCall(context, query_type, llm)

SpecGenerate == InitDirect /\ [][NextGenerate]_vars

NextStages ==
    \/ \E q \in PipelineQueries \ {NoneText}, i \in PipelineIntents : StageClassify(q, i)
    \/ StageRetrieve
    \/ StageGenerate
    \/ StageValidate

SpecStages == InitDirect /\ [][NextStages]_vars

-----------------------------------------------------------------------------
(* rasa/actions/actions.py: get_rag_enhanced_response, one stage per action *)

emergency_response ==
    <<"MEDICAL", "EMERGENCY", "DETECTED", "If", "you're", "experiencing", "a", "medical",
      "emergency", "please", "Call", "emergency", "services", "immediately", "911", "999",
      "112", "Go", "to", "the", "nearest", "emergency", "room", "Do", "not", "delay",
      "seeking", "professional", "medical", "help">>

fallback_response ==
    <<"I'm", "unable", "to", "provide", "a", "specific", "response", "right", "now", "For",
      "your", "safety", "please", "consult", "a", "qualified", "healthcare", "professional",
      "who", "can", "properly", "assess", "your", "situation">>

EmergencySources == <<Source(Name_EmergencyProtocol, Fx(100))>>

DegradedSources == <<Source(Name_internal_kb, Fx(80))>>

\* the pipeline is entered with (query, intent)
Request(q, i) ==
    /\ pc = "idle"
    /\ pc' = "start"
    /\ query' = q
    /\ intent' = i
    /\ UNCHANGED <<reqs, heap, augmented_input, output, collab, rag_router, routing_decision, context_results, rag_response, draft, v_args,
                   validation_result, verify_result, result, calls>>

\* Step 1: routing_decision = rag_router.classify_query(query, intent)
Classify ==
    /\ pc = "start"
    /\ rag_router
    /\ query # NoneText
    /\ pc' = "classified"
    /\ routing_decision' = classify_query(query, intent)
    /\ calls' = Append(calls, "classify_query")
    /\ UNCHANGED <<reqs, heap, augmented_input, output, collab, rag_router, query, intent, context_results, rag_response, draft, v_args,
                   validation_result, verify_result, result>>

\* Step 1 on an absent query: query.lower() raises, the except branch of the pipeline takes over
ClassifyRaises ==
    /\ pc = "start"
    /\ rag_router
    /\ query = NoneText
    /\ pc' = "except"
    /\ calls' = Append(calls, "classify_query")
    /\ UNCHANGED <<reqs, heap, augmented_input, output, collab, rag_router, query, intent, routing_decision, context_results, rag_response,
                   draft, v_args, validation_result, verify_result, result>>

\* Step 2: an emergency decision validates the canned emergency_response
ValidateEmergency ==
    /\ pc = "classified"
    /\ routing_decision.emergency_flag
    /\ pc' = "validated_emergency"
    /\ draft' = emergency_response
    /\ v_args' = [response |-> emergency_response, sources |-> EmergencySources,
                  query_type |-> "emergency"]
    /\ validation_result' = validate_response(emergency_response, EmergencySources, "emergency")
    /\ calls' = Append(calls, "validate_response")
    /\ UNCHANGED <<reqs, heap, augmented_input, output, collab, rag_router, query, intent, routing_decision, context_results, rag_response,
                   verify_result, result>>

\* Step 3: context_results = rag_router.retrieve_context(query, routing_decision)
Retrieve ==
    /\ pc = "classified"
    /\ ~routing_decision.emergency_flag
    /\ \E store \in StoreOutcomes(routing_decision.recommended_k,
                                  routing_decision.category_filter) :
          /\ context_results' = retrieve_context(query, routing_decision, store)
          /\ collab' = [collab EXCEPT
                 !.store = IF store.failed THEN "failed" ELSE "ok",
                 !.search = [query |-> query, top_k |-> routing_decision.recommended_k,
                             category_filter |-> routing_decision.category_filter],
                 !.results = store.results,
                 !.store_state = StoreState(store)]
    /\ pc' = "retrieved"
    /\ calls' = Append(calls, "retrieve_context")
    /\ UNCHANGED <<reqs, heap, augmented_input, output, rag_router, query, intent, routing_decision, rag_response, draft, v_args,
                   validation_result, verify_result, result>>

\* a generation step that asks the completion service again after a failure
Generate_retry ==
    /\ pc = "retrieved"
    /\ \E api \in ApiOutcomes :
          /\ context_results = <<>> => api.status = "exception"
          /\ rag_response' = generate_rag_response(query, context_results,
                                 routing_decision.query_type,
                                 [raised |-> FALSE, text |-> get_llm_response(api)])
          /\ collab' = IF context_results = <<>> THEN collab
                       ELSE [collab EXCEPT !.llm = api.status]
          /\ calls' = IF context_results = <<>>
                      THEN Append(calls, "generate_rag_response")
                      ELSE IF api.status = "200"
                      THEN calls \o <<"generate_rag_response", "get_llm_response">>
                      ELSE calls \o <<"generate_rag_response", "get_llm_response",
                                      "get_llm_response">>
    /\ draft' = rag_response'.answer
    /\ pc' = "generated"
    /\ UNCHANGED <<reqs, heap, augmented_input, output, rag_router, query, intent, routing_decision,
                   context_results, v_args, validation_result, verify_result, result>>

\* Step 4: rag_response = rag_router.generate_rag_response(..., get_llm_response);
\* get_llm_response is called only when there is context
Generate ==
    /\ pc = "retrieved"
    /\ \E api \in ApiOutcomes :
          /\ context_results = <<>> => api.status = "exception"
          /\ rag_response' = generate_rag_response(query, context_results,
                                 routing_decision.query_type,
                                 [raised |-> FALSE, text |-> get_llm_response(api)])
          /\ collab' = IF context_results = <<>> THEN collab
                       ELSE [collab EXCEPT !.llm = api.status]
    /\ draft' = rag_response'.answer
    /\ pc' = "generated"
    /\ calls' = IF context_results = <<>>
                THEN Append(calls, "generate_rag_response")
                ELSE calls \o <<"generate_rag_response", "get_llm_response">>
    /\ UNCHANGED <<reqs, heap, augmented_input, output, rag_router, query, intent, routing_decision, context_results, v_args,
                   validation_result, verify_result, result>>

\* Step 5: validation of rag_response.answer
Validate ==
    /\ pc = "generated"
    /\ pc' = "validated"
    /\ v_args' = [response |-> rag_response.answer, sources |-> rag_response.sources,
                  query_type |-> routing_decision.query_type]
    /\ validation_result' = validate_response(rag_response.answer, rag_response.sources,
                                              routing_decision.query_type)
    /\ calls' = Append(calls, "validate_response")
    /\ UNCHANGED <<reqs, heap, augmented_input, output, collab, rag_router, query, intent, routing_decision, context_results, rag_response,
                   draft, verify_result, result>>

\* the else branch: llm_response = get_llm_response(query, MEDICAL_KB) and its validation
Degraded ==
    /\ pc = "start"
    /\ ~rag_router
    /\ \E api \in ApiOutcomes :
          /\ draft' = get_llm_response(api)
          /\ validation_result' = validate_response(get_llm_response(api), <<>>, None)
          /\ v_args' = [response |-> get_llm_response(api), sources |-> <<>>,
                        query_type |-> None]
          /\ collab' = [collab EXCEPT !.llm = api.status]
    /\ pc' = "validated_degraded"
    /\ calls' = calls \o <<"get_llm_response", "validate_response">>
    /\ UNCHANGED <<reqs, heap, augmented_input, output, rag_router, query, intent, routing_decision, context_results, rag_response,
                   verify_result, result>>

\* the except branch: validation of fallback_response
Except ==
    /\ pc = "except"
    /\ pc' = "validated_except"
    /\ draft' = fallback_response
    /\ v_args' = [response |-> fallback_response, sources |-> <<>>, query_type |-> None]
    /\ validation_result' = validate_response(fallback_response, <<>>, None)
    /\ calls' = Append(calls, "validate_response")
    /\ UNCHANGED <<reqs, heap, augmented_input, output, collab, rag_router, query, intent, routing_decision, context_results, rag_response,
                   verify_result, result>>

-----------------------------------------------------------------------------
(* get_rag_enhanced_response handled for several requests at once *)

\* the variables of the single-request pipeline, which the concurrent requests leave alone
pipeline_vars ==
    <<pc, rag_router, query, intent, routing_decision, context_results, rag_response, draft,
      v_args, validation_result, verify_result, result, collab, augmented_input, output, calls>>

\* steps 4 and 5 and the return of one request, from its context on
Answer(q, decision, context, api) ==
    LET rag == generate_rag_response(q, context, decision.query_type,
                                     [raised |-> FALSE, text |-> get_llm_response(api)])
        v == validate_response(rag.answer, rag.sources, decision.query_type)
    IN  [response |-> v.modified_response, sources |-> rag.sources,
         query_type |-> decision.query_type, confidence |-> v.confidence_score,
         emergency |-> decision.emergency_flag, warnings |-> v.warnings]

\* request r arrives
CRequest(r, q) ==
    /\ reqs[r].pc = "idle"
    /\ reqs' = [reqs EXCEPT ![r].pc = "start", ![r].query = q]
    /\ UNCHANGED <<heap, pipeline_vars>>

\* request r: routing_decision = rag_router.classify_query(query, intent)
CClassify(r) ==
    /\ reqs[r].pc = "start"
    /\ reqs' = [reqs EXCEPT ![r].pc = "classified",
                            ![r].decision = classify_query(reqs[r].query, None)]
    /\ UNCHANGED <<heap, pipeline_vars>>

\* request r: an emergency decision validates the canned text and returns
CEmergency(r) ==
    /\ reqs[r].pc = "classified"
    /\ reqs[r].decision.emergency_flag
    /\ LET v == validate_response(emergency_response, EmergencySources, "emergency")
       IN  reqs' = [reqs EXCEPT ![r].pc = "done",
                       ![r].result = [response |-> v.modified_response,
                                      sources |-> EmergencySources,
                                      query_type |-> reqs[r].decision.query_type,
                                      confidence |-> v.confidence_score,
                                      emergency |-> TRUE, warnings |-> <<>>]]
    /\ UNCHANGED <<heap, pipeline_vars>>

\* a search that hands out the object already built for a document, when there is one
CRetrieve_shared(r) ==
    /\ reqs[r].pc = "classified"
    /\ ~reqs[r].decision.emergency_flag
    /\ \E store \in StoreOutcomes(reqs[r].decision.recommended_k,
                                  reqs[r].decision.category_filter) :
          LET n == Len(store.results)
              Cached(i) == {h \in 1..Len(heap) : heap[h].document = store.results[i].document}
              fresh == {i \in 1..n : Cached(i) = {}}
              rank(i) == Cardinality({j \in fresh : j <= i})
          IN  /\ heap' = heap \o [k \in 1..Cardinality(fresh) |->
                                     store.results[CHOOSE i \in fresh : rank(i) = k]]
              /\ reqs' = [reqs EXCEPT
                     ![r].store = store,
                     ![r].refs = [i \in 1..n |->
                                     IF i \in fresh THEN Len(heap) + rank(i)
                                     ELSE CHOOSE h \in Cached(i) : TRUE],
                     ![r].idx = 1,
                     ![r].pc = IF store.failed THEN "retrieved" ELSE "boosting"]
    /\ UNCHANGED pipeline_vars

\* request r: results = self.vector_store.retrieve(...): every call builds new
\* RetrievalResult objects; a failed search leaves the empty list
CRetrieve(r) ==
    /\ reqs[r].pc = "classified"
    /\ ~reqs[r].decision.emergency_flag
    /\ \E store \in StoreOutcomes(reqs[r].decision.recommended_k,
                                  reqs[r].decision.category_filter) :
          /\ heap' = heap \o store.results
          /\ reqs' = [reqs EXCEPT
                 ![r].store = store,
                 ![r].refs = [i \in 1..Len(store.results) |-> Len(heap) + i],
                 ![r].idx = 1,
                 ![r].pc = IF store.failed THEN "retrieved" ELSE "boosting"]
    /\ UNCHANGED pipeline_vars

\* request r: one turn of the loop of _apply_type_specific_filtering, which
\* writes the boosted score into the object
CBoost(r) ==
    /\ reqs[r].pc = "boosting"
    /\ reqs[r].idx <= Len(reqs[r].refs)
    /\ heap' = [heap EXCEPT ![reqs[r].refs[reqs[r].idx]] =
                                Boost(@, reqs[r].decision.query_type)]
    /\ reqs' = [reqs EXCEPT ![r].idx = @ + 1]
    /\ UNCHANGED pipeline_vars

\* request r: results.sort(key=relevance_score, reverse=True) after the loop
CSort(r) ==
    /\ reqs[r].pc = "boosting"
    /\ reqs[r].idx > Len(reqs[r].refs)
    /\ LET keyed == [i \in 1..Len(reqs[r].refs) |->
                        [id |-> reqs[r].refs[i],
                         relevance_score |-> heap[reqs[r].refs[i]].relevance_score]]
           sorted == SortDescending(keyed)
       IN  reqs' = [reqs EXCEPT ![r].refs = [i \in 1..Len(sorted) |-> sorted[i].id],
                                ![r].pc = "retrieved"]
    /\ UNCHANGED <<heap, pipeline_vars>>

\* request r: generate_rag_response reads the objects of its list, then the
\* answer is validated and returned
CAnswer(r) ==
    /\ reqs[r].pc = "retrieved"
    /\ \E api \in {a \in ApiOutcomes : a.content \in {<<"Safe", "advice">>, NoneText}} :
          reqs' = [reqs EXCEPT
              ![r].api = api,
              ![r].pc = "done",
              ![r].result = Answer(reqs[r].query, reqs[r].decision,
                                   [i \in 1..Len(reqs[r].refs) |-> heap[reqs[r].refs[i]]],
                                   api)]
    /\ UNCHANGED <<heap, pipeline_vars>>

NextConcurrent ==
    \/ \E r \in Requests, q \in {<<"What", "are", "the", "side", "effects", "of", "metformin">>,
                                 <<"chest", "pain">>} : CRequest(r, q)
    \/ \E r \in Requests : CClassify(r)
    \/ \E r \in Requests : CEmergency(r)
    \/ \E r \in Requests : CRetrieve(r)
    \/ \E r \in Requests : CBoost(r)
    \/ \E r \in Requests : CSort(r)
    \/ \E r \in Requests : CAnswer(r)

SpecConcurrent == InitDirect /\ [][NextConcurrent]_vars

\* the record each path returns
ReturnValue ==
    CASE pc = "validated_emergency" ->
            [response |-> validation_result.modified_response, sources |-> EmergencySources,
             query_type |-> routing_decision.query_type,
             confidence |-> validation_result.confidence_score, emergency |-> TRUE,
             warnings |-> <<>>]
      [] pc = "validated" ->
            [response |-> validation_result.modified_response,
             sources |-> rag_response.sources,
             query_type |-> routing_decision.query_type,
             confidence |-> validation_result.confidence_score,
             emergency |-> routing_decision.emergency_flag,
             warnings |-> validation_result.warnings]
      [] pc = "validated_degraded" ->
            [response |-> validation_result.modified_response, sources |-> DegradedSources,
             query_type |-> "general", confidence |-> validation_result.confidence_score,
             emergency |-> FALSE, warnings |-> <<>>]
      [] pc = "validated_except" ->
            [response |-> validation_result.modified_response, sources |-> <<>>,
             query_type |-> "error", confidence |-> Fx(10), emergency |-> FALSE,
             warnings |-> <<>>]

\* a return that hands the draft to the caller in place of the validated text
Return_draft ==
    /\ pc \in {"validated_emergency", "validated", "validated_degraded", "validated_except"}
    /\ pc' = "done"
    /\ result' = [ReturnValue EXCEPT !.response = draft]
    /\ UNCHANGED <<reqs, heap, augmented_input, output, collab, rag_router, query, intent, routing_decision, context_results, rag_response,
                   draft, v_args, validation_result, verify_result, calls>>

Return ==
    /\ pc \in {"validated_emergency", "validated", "validated_degraded", "validated_except"}
    /\ pc' = "done"
    /\ result' = ReturnValue
    /\ UNCHANGED <<reqs, heap, augmented_input, output, collab, rag_router, query, intent, routing_decision, context_results, rag_response,
                   draft, v_args, validation_result, verify_result, calls>>

Next ==
    \/ \E q \in PipelineQueries, i \in PipelineIntents : Request(q, i)
    \/ Classify
    \/ ClassifyRaises
    \/ ValidateEmergency
    \/ Retrieve
    \/ Generate
    \/ Validate
    \/ Degraded
    \/ Except
    \/ Return

Spec == Init /\ [][Next]_vars

-----------------------------------------------------------------------------
(* The pipeline with collaborators that may never answer *)

\* retrieve_context sends the query to the vector store: self.index.query(...),
\* which is given no timeout
SearchCall ==
    /\ pc = "classified"
    /\ ~routing_decision.emergency_flag
    /\ pc' = "searching"
    /\ collab' = [collab EXCEPT
           !.store = "called",
           !.search = [query |-> query, top_k |-> routing_decision.recommended_k,
                       category_filter |-> routing_decision.category_filter]]
    /\ calls' = Append(calls, "retrieve_context")
    /\ UNCHANGED <<reqs, heap, augmented_input, output, rag_router, query, intent,
                   routing_decision, context_results, rag_response, draft, v_args,
                   validation_result, verify_result, result>>

\* the vector store answers, with matches or with an error
SearchResponds ==
    /\ pc = "searching"
    /\ \E store \in StoreOutcomes(routing_decision.recommended_k,
                                  routing_decision.category_filter) :
          /\ context_results' = retrieve_context(query, routing_decision, store)
          /\ collab' = [collab EXCEPT !.store = IF store.failed THEN "failed" ELSE "ok",
                                      !.results = store.results,
                                      !.store_state = StoreState(store)]
    /\ pc' = "retrieved"
    /\ UNCHANGED <<reqs, heap, augmented_input, output, rag_router, query, intent,
                   routing_decision, rag_response, draft, v_args, validation_result,
                   verify_result, result, calls>>

\* generate_rag_response without context returns its canned answer at once
GenerateEmpty ==
    /\ pc = "retrieved"
    /\ context_results = <<>>
    /\ rag_response' = generate_rag_response(query, context_results,
                           routing_decision.query_type, [raised |-> FALSE, text |-> NoneText])
    /\ draft' = rag_response'.answer
    /\ pc' = "generated"
    /\ calls' = Append(calls, "generate_rag_response")
    /\ UNCHANGED <<reqs, heap, augmented_input, output, collab, rag_router, query, intent,
                   routing_decision, context_results, v_args, validation_result,
                   verify_result, result>>

\* get_llm_response sends the prompt: requests.post(..., timeout=20)
LlmCall ==
    /\ pc = "retrieved"
    /\ context_results # <<>>
    /\ pc' = "completing"
    /\ collab' = [collab EXCEPT !.llm = "called"]
    /\ calls' = calls \o <<"generate_rag_response", "get_llm_response">>
    /\ UNCHANGED <<reqs, heap, augmented_input, output, rag_router, query, intent,
                   routing_decision, context_results, rag_response, draft, v_args,
                   validation_result, verify_result, result>>

\* what generate_rag_response does with the outcome api of the completion request
LlmOutcome(api) ==
    /\ pc = "completing"
    /\ rag_response' = generate_rag_response(query, context_results,
                           routing_decision.query_type,
                           [raised |-> FALSE, text |-> get_llm_response(api)])
    /\ draft' = rag_response'.answer
    /\ collab' = [collab EXCEPT !.llm = api.status]
    /\ pc' = "generated"
    /\ UNCHANGED <<reqs, heap, augmented_input, output, rag_router, query, intent,
                   routing_decision, context_results, v_args, validation_result,
                   verify_result, result, calls>>

\* the completion service answers, or the connection fails
LlmResponds == \E api \in ApiOutcomes : LlmOutcome(api)

\* no answer within the timeout: requests raises, get_llm_response catches it
LlmTimeout == LlmOutcome([status |-> "exception", content |-> NoneText])

\* the program is at a statement of its own, or in the completion request that its
\* timeout ends, and moves on; in the vector search it waits for the answer
ProgramStep ==
    /\ pc \in {"start", "classified", "retrieved", "completing", "generated", "except",
               "validated", "validated_emergency", "validated_except"}
    /\ pc' \in {"classified", "except", "validated_emergency", "searching", "generated",
                "completing", "validated", "validated_except", "done"}
    /\ pc' # pc

NextLive ==
    \/ \E q \in PipelineQueries, i \in PipelineIntents : Request(q, i)
    \/ Classify
    \/ ClassifyRaises
    \/ ValidateEmergency
    \/ SearchCall
    \/ SearchResponds
    \/ GenerateEmpty
    \/ LlmCall
    \/ LlmResponds
    \/ LlmTimeout
    \/ Validate
    \/ Except
    \/ Return

\* the program keeps running; the collaborators are under no obligation to answer
SpecLive == InitDirect /\ [][NextLive]_vars /\ WF_pc(ProgramStep)

-----------------------------------------------------------------------------
(* Properties of classify_query (SpecClassify) *)

\* C1: every query that matches an emergency pattern is classified EMERGENCY with
\* emergency_flag true, recommended_k 1, confidence 0.95, strategy
\* 'emergency_protocol' and no category filter, whatever the upstream intent is
\* (absent, empty, mapped or unmapped): the emergency check precedes the intent.
C1_EmergencyPreempts ==
    (pc = "classify_query" /\ _matches_patterns(LowerText(query), emergency_patterns))
        => routing_decision = [query_type |-> "emergency", confidence |-> Fx(95),
                               retrieval_strategy |-> "emergency_protocol",
                               emergency_flag |-> TRUE, recommended_k |-> 1,
                               category_filter |-> None]

\* C1 happens: an emergency query arrives with a mapped upstream intent
C1_Witness ==
    /\ pc = "classify_query"
    /\ query = <<"chest", "pain">>
    /\ intent = "ask_medication"
    /\ routing_decision.query_type = "emergency"

\* C6: classify_query returns the decision of the reference first-match cascade:
\* emergency, else the mapped upstream intent at 0.9, else the first matching
\* pattern set in the order interaction (0.85), symptom (0.80), medication (0.80),
\* chronic (0.80), mental health (0.80), diagnostic (0.75), each with its type's
\* strategy, k and category filter, else GENERAL_HEALTH at 0.6 with
\* 'hybrid_search', k = 5 and no filter.
C6_ReferenceCascade ==
    LET ql == LowerText(query)
        D(qt, conf, st, k, f) ==
            [query_type |-> qt, confidence |-> conf, retrieval_strategy |-> st,
             emergency_flag |-> FALSE, recommended_k |-> k, category_filter |-> f]
        ByType(qt, conf) ==
            CASE qt = "drug_interaction" -> D(qt, conf, "interaction_focused", 3, "interaction")
              [] qt = "symptom_check"    -> D(qt, conf, "symptom_focused", 4, "symptom")
              [] qt = "medication_info"  -> D(qt, conf, "medication_focused", 3, "medication")
              [] qt = "chronic_care"     -> D(qt, conf, "chronic_focused", 4, "chronic_condition")
              [] qt = "mental_health"    -> D(qt, conf, "mental_health_focused", 3, "mental_health")
              [] qt = "diagnostic"       -> D(qt, conf, "diagnostic_focused", 4, None)
        expected ==
            IF _matches_patterns(ql, emergency_patterns)
            THEN [query_type |-> "emergency", confidence |-> Fx(95),
                  retrieval_strategy |-> "emergency_protocol", emergency_flag |-> TRUE,
                  recommended_k |-> 1, category_filter |-> None]
            ELSE IF intent = "ask_medication" THEN ByType("medication_info", Fx(90))
            ELSE IF intent = "symptom_check" THEN ByType("symptom_check", Fx(90))
            ELSE IF intent = "chronic_care" THEN ByType("chronic_care", Fx(90))
            ELSE IF intent = "mental_health" THEN ByType("mental_health", Fx(90))
            ELSE IF _matches_patterns(ql, interaction_patterns)
            THEN ByType("drug_interaction", Fx(85))
            ELSE IF _matches_patterns(ql, symptom_patterns)
            THEN ByType("symptom_check", Fx(80))
            ELSE IF _matches_patterns(ql, medication_patterns)
            THEN ByType("medication_info", Fx(80))
            ELSE IF _matches_patterns(ql, chronic_patterns)
            THEN ByType("chronic_care", Fx(80))
            ELSE IF _matches_patterns(ql, mental_health_patterns)
            THEN ByType("mental_health", Fx(80))
            ELSE IF _matches_patterns(ql, diagnostic_patterns)
            THEN ByType("diagnostic", Fx(75))
            ELSE D("general_health", Fx(60), "hybrid_search", 5, None)
    IN  pc = "classify_query" => routing_decision = expected

\* C6 happens: a query matching both the symptom and the medication patterns, with
\* an upstream intent the mapping lacks, is decided by the earlier set
C6_Witness ==
    /\ pc = "classify_query"
    /\ intent = "general_health"
    /\ _matches_patterns(LowerText(query), symptom_patterns)
    /\ _matches_patterns(LowerText(query), medication_patterns)
    /\ ~_matches_patterns(LowerText(query), interaction_patterns)
    /\ routing_decision.query_type = "symptom_check"
    /\ routing_decision.recommended_k = 4

\* C20: when no emergency pattern matches and the upstream intent is one of
\* ask_medication, symptom_check, chronic_care, mental_health, classify_query
\* returns the mapped type with confidence 0.9 and that type's static strategy,
\* k and category filter, whatever patterns the text matches; an intent outside
\* the mapping is ignored and the pattern cascade decides.
C20_MappedIntentDecides ==
    LET D(qt, st, k, f) ==
            [query_type |-> qt, confidence |-> Fx(90), retrieval_strategy |-> st,
             emergency_flag |-> FALSE, recommended_k |-> k, category_filter |-> f]
        mapped == {"ask_medication", "symptom_check", "chronic_care", "mental_health"}
    IN  (pc = "classify_query" /\ ~_matches_patterns(LowerText(query), emergency_patterns))
            => /\ intent = "ask_medication"
                     => routing_decision =
                           D("medication_info", "medication_focused", 3, "medication")
               /\ intent = "symptom_check"
                     => routing_decision = D("symptom_check", "symptom_focused", 4, "symptom")
               /\ intent = "chronic_care"
                     => routing_decision =
                           D("chronic_care", "chronic_focused", 4, "chronic_condition")
               /\ intent = "mental_health"
                     => routing_decision =
                           D("mental_health", "mental_health_focused", 3, "mental_health")
               /\ intent \notin mapped
                     => /\ routing_decision = pattern_classification(LowerText(query))
                        /\ routing_decision.confidence # Fx(90)

\* C20 happens: a text matching the symptom patterns arrives with intent ask_medication
C20_Witness ==
    /\ pc = "classify_query"
    /\ intent = "ask_medication"
    /\ ~_matches_patterns(LowerText(query), emergency_patterns)
    /\ _matches_patterns(LowerText(query), symptom_patterns)
    /\ routing_decision.query_type = "medication_info"
    /\ routing_decision.confidence = Fx(90)

-----------------------------------------------------------------------------
(* Properties of validate_response (SpecValidate) *)

\* C2: a text matching a critical-unsafe pattern is validated as level UNSAFE,
\* is_safe false, confidence 0.0, with the canonical safe fallback as final text
\* (which contains 'healthcare' and 'professional'), for every sources list and
\* query type, also when the text matches emergency indicators or warning patterns.
C2_CriticalIsTerminal ==
    (/\ pc = "validate_response"
     /\ v_args.response # NoneText
     /\ _contains_critical_unsafe_content(LowerText(v_args.response)))
        => /\ validation_result.level = "unsafe"
           /\ validation_result.is_safe = FALSE
           /\ validation_result.confidence_score = 0
           /\ validation_result.modified_response = _get_safe_fallback_response
           /\ \E i \in 1..Len(validation_result.modified_response) :
                 validation_result.modified_response[i] = "healthcare"
           /\ \E i \in 1..Len(validation_result.modified_response) :
                 validation_result.modified_response[i] = "professional"

\* C2 happens: a text both critical and an emergency indicator, validated with sources
C2_Witness ==
    /\ pc = "validate_response"
    /\ v_args.response # NoneText
    /\ _contains_critical_unsafe_content(LowerText(v_args.response))
    /\ _contains_emergency_indicators(LowerText(v_args.response))
    /\ v_args.sources # <<>>
    /\ validation_result.level = "unsafe"

\* C8: a text telling the user to stop taking their medication, with or without
\* words between 'stop taking' and 'medication', is validated as level UNSAFE
\* with is_safe false, for every sources list.
C8_StopTakingIsUnsafe ==
    (/\ pc = "validate_response"
     /\ v_args.response # NoneText
     /\ \E i \in 1..Len(v_args.response), j \in 1..Len(v_args.response) :
           /\ i + 1 < j
           /\ LowerWord(v_args.response[i]) = "stop"
           /\ LowerWord(v_args.response[i + 1]) = "taking"
           /\ LowerWord(v_args.response[j]) = "medication")
        => /\ validation_result.level = "unsafe"
           /\ validation_result.is_safe = FALSE

\* C10: a source whose name is or contains a whitelist entry counts as
\* whitelisted: a safe text validated with sources of such names only, each with
\* confidence >= 0.7, gets is_safe true, sources_verified true and a confidence
\* score above 0.7.
C10_WhitelistedNamesVerify ==
    (/\ pc = "validate_response"
     /\ validation_result.level = "safe"
     /\ v_args.sources # <<>>
     /\ \A i \in 1..Len(v_args.sources) :
           /\ \E n \in 1..Len(credible_sources) :
                 IsSubstring(credible_sources[n], v_args.sources[i].source)
           /\ v_args.sources[i].confidence >= Fx(70))
        => /\ validation_result.is_safe
           /\ validation_result.sources_verified
           /\ validation_result.confidence_score > Fx(70)

\* C19: a text matching no critical-unsafe pattern but an emergency indicator is
\* validated as level EMERGENCY, is_safe true, confidence 1.0, and its final
\* text is the fixed prefix banner, the unmodified original text and the fixed
\* action checklist, for every sources list and query type.
C19_EmergencyWrapsOriginal ==
    (/\ pc = "validate_response"
     /\ v_args.response # NoneText
     /\ ~_contains_critical_unsafe_content(LowerText(v_args.response))
     /\ _contains_emergency_indicators(LowerText(v_args.response)))
        => /\ validation_result.level = "emergency"
           /\ validation_result.is_safe
           /\ validation_result.confidence_score = Fx(100)
           /\ validation_result.modified_response =
                 <<"MEDICAL", "EMERGENCY">> \o v_args.response \o
                 <<"IMMEDIATE", "ACTIONS", "Call", "emergency", "services", "now", "911",
                   "999", "112", "Do", "not", "delay", "seeking", "professional", "medical",
                   "help", "Follow", "emergency", "responder", "instructions", "Stay", "calm",
                   "and", "seek", "immediate", "assistance">>

\* C19 happens: 'Call 911 for chest pain' is validated with unverifiable sources
C19_Witness ==
    /\ pc = "validate_response"
    /\ v_args.response = <<"Call", "911", "for", "chest", "pain">>
    /\ v_args.sources # <<>>
    /\ ~_verify_sources(v_args.sources)
    /\ v_args.query_type = "medication_info"
    /\ validation_result.level = "emergency"

\* C21: for SAFE and WARNING results a disclaimer is appended exactly when the
\* input text holds fewer than 2 of the keywords consult, healthcare,
\* professional, doctor, physician, and the disclaimer appended is the one of the
\* query type: medication for medication and drug types, symptom, emergency,
\* chronic, mental health, and general for every other or absent type.
C21_DisclaimerByKeywordCount ==
    LET input == LowerText(v_args.response)
        count == Cardinality({k \in {"consult", "healthcare", "professional", "doctor",
                                     "physician"} :
                                \E i \in 1..Len(input) : WordContains(input[i], k)})
        base == IF validation_result.level = "warning"
                THEN _add_safety_qualifiers(v_args.response)
                ELSE v_args.response
        kind == CASE v_args.query_type \in {"medication_info", "drug_interaction"} -> "medication"
                  [] v_args.query_type = "symptom_check" -> "symptom"
                  [] v_args.query_type = "emergency" -> "emergency"
                  [] v_args.query_type = "chronic_care" -> "chronic"
                  [] v_args.query_type = "mental_health" -> "mental_health"
                  [] OTHER -> "general"
    IN  (pc = "validate_response" /\ validation_result.level \in {"safe", "warning"})
            => validation_result.modified_response =
                  IF count >= 2 THEN base
                  ELSE base \o <<"Medical", "Disclaimer">> \o disclaimers(kind)

\* C21 happens: a safe text with exactly one keyword gets the mental-health disclaimer
C21_Witness ==
    /\ pc = "validate_response"
    /\ validation_result.level = "safe"
    /\ v_args.query_type = "mental_health"
    /\ Cardinality({k \in {"consult", "healthcare", "professional", "doctor", "physician"} :
                      \E i \in 1..Len(v_args.response) :
                         WordContains(LowerWord(v_args.response[i]), k)}) = 1
    /\ validation_result.modified_response =
          v_args.response \o <<"Medical", "Disclaimer">> \o disclaimers("mental_health")

-----------------------------------------------------------------------------
(* Properties of _verify_sources (SpecVerify) *)

\* C9: _verify_sources is true exactly when the list is non-empty, every source
\* has confidence >= 0.7 and at least half of the sources are whitelisted (their
\* name is or contains a whitelist entry); an empty list gives false.
C9_VerifyIff ==
    LET sources == v_args.sources
        whitelisted == {i \in 1..Len(sources) :
                          \E n \in 1..Len(credible_sources) :
                             IsSubstring(credible_sources[n], sources[i].source)}
    IN  pc = "_verify_sources"
           => (verify_result <=>
                  /\ sources # <<>>
                  /\ \A i \in 1..Len(sources) :
                        sources[i].confidence # Absent /\ sources[i].confidence >= Fx(70)
                  /\ 2 * Cardinality(whitelisted) >= Len(sources))

-----------------------------------------------------------------------------
(* Properties of the pipeline (Spec) *)

\* C3: on every path of get_rag_enhanced_response the text returned is the final
\* text of a validate_response call on the draft; a draft judged UNSAFE is
\* replaced by the safe fallback and never returned.
C3_OnlyValidatedTextReturned ==
    pc = "done"
        => /\ calls # <<>> /\ calls[Len(calls)] = "validate_response"
           /\ v_args.response = draft
           /\ validation_result = validate_response(draft, v_args.sources, v_args.query_type)
           /\ result.response = validation_result.modified_response
           /\ validation_result.level = "unsafe"
                 => result.response = _get_safe_fallback_response /\ result.response # draft

\* C3 happens: a generated draft is judged UNSAFE and the pipeline returns
C3_Witness ==
    /\ pc = "done"
    /\ rag_router
    /\ draft # NoneText
    /\ collab.llm = "200"
    /\ validation_result.level = "unsafe"
    /\ result.response = _get_safe_fallback_response

\* C4: a query matching an emergency pattern is answered with the validated
\* emergency-protocol response and emergency flag true, also when the router and
\* the vector store failed to initialise.
C4_EmergencyAnswerAlways ==
    (/\ pc = "done"
     /\ query # NoneText
     /\ _matches_patterns(LowerText(query), emergency_patterns))
        => /\ result.emergency
           /\ result.response =
                 validate_response(emergency_response, EmergencySources,
                                   "emergency").modified_response

\* C5: whenever a collaborator failed (router or vector store unavailable,
\* retrieval failed, generation failed, validator internal error) the pipeline
\* returns a record whose response is one of the pre-defined safe texts.
C5_FailureGivesPredefinedText ==
    LET canned == {fallback_response, NoContextAnswer, GenerationErrorAnswer,
                   LLMStatusErrorAnswer, LLMExceptionAnswer, emergency_response,
                   _get_safe_fallback_response}
        predefined == canned \cup
            {validate_response(t, v_args.sources, v_args.query_type).modified_response :
                t \in canned}
        failure == \/ ~rag_router
                   \/ collab.store = "failed"
                   \/ collab.llm \in {"500", "exception"}
                   \/ v_args.response = NoneText
                   \/ result.query_type = "error"
    IN  (pc = "done" /\ failure) => result.response \in predefined

\* C7: a decision with emergency_flag true has type EMERGENCY and recommended_k 1,
\* and once classify_query has produced the decision no later stage changes it.
C7_DecisionInvariantAndReadOnly ==
    /\ [](routing_decision.emergency_flag
             => routing_decision.query_type = "emergency"
                /\ routing_decision.recommended_k = 1)
    /\ [][routing_decision # NoDecision => routing_decision' = routing_decision]_vars

\* C7 happens: a non-emergency decision has gone through retrieval, generation and
\* validation
C7_Witness ==
    /\ pc = "done"
    /\ routing_decision # NoDecision
    /\ ~routing_decision.emergency_flag
    /\ context_results # <<>>
    /\ collab.llm = "200"

-----------------------------------------------------------------------------
(* Properties of the confidence score (SpecScore) *)

\* C11: the confidence_score of every result of validate_response lies in
\* [0.0, 1.0], for every level, every sources list (empty, or with confidences of
\* any value, or missing) and with or without a disclaimer marker.
C11_ScoreInUnitInterval ==
    pc = "validate_response"
        => /\ validation_result.confidence_score >= Fx(0)
           /\ validation_result.confidence_score <= Fx(100)

\* C11 happens: a safe text with a source confidence far above 1.0 is scored
C11_Witness ==
    /\ pc = "validate_response"
    /\ validation_result.level \in {"safe", "warning"}
    /\ \E i \in 1..Len(v_args.sources) : v_args.sources[i].confidence > Fx(100)
    /\ _calculate_confidence_score_unclamped(validation_result.modified_response,
           v_args.sources, validation_result.level) > Fx(100)
    /\ validation_result.confidence_score = Fx(100)

\* C16: an internal error raised while validate_response runs (an absent
\* response text, a sources entry that is no record) is caught: the result is
\* level UNSAFE, is_safe false, the canonical safe fallback, confidence 0.0 and
\* the recommendation of a manual review; nothing is raised to the caller.
C16_InternalErrorGivesUnsafeFallback ==
    (pc = "validate_response"
        /\ validate_raises(v_args.response, v_args.sources, v_args.query_type))
        => /\ validation_result.level = "unsafe"
           /\ validation_result.is_safe = FALSE
           /\ validation_result.modified_response = _get_safe_fallback_response
           /\ validation_result.confidence_score = 0
           /\ validation_result.sources_verified = FALSE
           /\ validation_result.recommendations = <<"Manual review required">>

\* C16 happens: a safe text is validated with a sources entry that is no record
C16_Witness ==
    /\ pc = "validate_response"
    /\ v_args.response = <<"Safe", "advice">>
    /\ \E i \in 1..Len(v_args.sources) : v_args.sources[i] = NotARecord
    /\ validation_result.recommendations = <<"Manual review required">>

-----------------------------------------------------------------------------
(* Properties of the composed stages (SpecStages) *)

\* C12: for a query matching an emergency pattern the composed stages give an
\* EMERGENCY decision with k = 1, then the single synthetic emergency document,
\* then the fixed emergency banner with confidence 1.0 and the single
\* 'Emergency Protocol' source without the generation being called, then a
\* validation of that banner with level EMERGENCY whose final text holds the
\* call to the emergency services.
C12_EmergencyThroughAllStages ==
    LET em == query # NoneText /\ _matches_patterns(LowerText(query), emergency_patterns)
        final == validation_result.modified_response
    IN  /\ (em /\ pc \in {"stage_classified", "stage_retrieved", "stage_generated",
                          "stage_validated"})
              => /\ routing_decision.query_type = "emergency"
                 /\ routing_decision.recommended_k = 1
        /\ (em /\ pc \in {"stage_retrieved", "stage_generated", "stage_validated"})
              => context_results =
                    << [document |-> [doc_id |-> "emergency_protocol",
                                      source |-> Name_EmergencyProtocol,
                                      category |-> "emergency", confidence |-> Fx(100)],
                        relevance_score |-> Fx(100)] >>
        /\ (em /\ pc \in {"stage_generated", "stage_validated"})
              => /\ rag_response.answer = EmergencyBanner
                 /\ rag_response.confidence = Fx(100)
                 /\ rag_response.sources =
                       <<[source |-> Name_EmergencyProtocol, confidence |-> Fx(100)]>>
                 /\ rag_response.emergency_detected
                 /\ collab.llm = "not_called"
                 /\ \A n \in 1..Len(calls) : calls[n] # "llm_generate_func"
        /\ (em /\ pc = "stage_validated")
              => /\ v_args.response = EmergencyBanner
                 /\ validation_result.level = "emergency"
                 /\ validation_result.is_safe
                 /\ \E n \in 1..(Len(final) - 2) :
                       /\ LowerWord(final[n]) = "call"
                       /\ LowerWord(final[n + 1]) = "emergency"
                       /\ LowerWord(final[n + 2]) = "services"

\* C12 happens: 'chest pain' has gone through the four stages
C12_Witness ==
    /\ pc = "stage_validated"
    /\ query = <<"chest", "pain">>
    /\ validation_result.level = "emergency"
    /\ Len(context_results) = 1

\* C13: with emergency_flag true retrieve_context does not search the vector
\* store and returns exactly the canned emergency-protocol document with
\* relevance 1.0, whether the store is available, failing or empty.
C13_EmergencyBypassesSearch ==
    (routing_decision.emergency_flag
        /\ pc \in {"stage_retrieved", "stage_generated", "stage_validated"})
        => /\ Len(context_results) = 1
           /\ context_results[1].document.doc_id = "emergency_protocol"
           /\ context_results[1].document.source = Name_EmergencyProtocol
           /\ context_results[1].document.category = "emergency"
           /\ context_results[1].relevance_score = Fx(100)
           /\ collab.store = "not_called"
           /\ collab.search = NoSearch
           /\ \A n \in 1..Len(calls) : calls[n] # "vector_store.retrieve"

\* C13 happens: an emergency decision is retrieved while the vector store is failing
C13_Witness ==
    /\ pc = "stage_retrieved"
    /\ routing_decision.emergency_flag
    /\ collab.store_state = "failing"
    /\ Len(context_results) = 1

\* C14: for a non-emergency decision retrieve_context searches the vector store
\* with (query, top_k = recommended_k, category_filter = category_filter), and
\* when the search or the post-processing fails it returns an empty list and
\* raises nothing.
C14_SearchArgumentsAndFailure ==
    /\ pc # "raised"
    /\ (~routing_decision.emergency_flag
           /\ pc \in {"stage_retrieved", "stage_generated", "stage_validated"})
          => /\ collab.store \in {"ok", "failed"}
             /\ collab.search = [query |-> query,
                                 top_k |-> routing_decision.recommended_k,
                                 category_filter |-> routing_decision.category_filter]
             /\ Len(collab.results) <= routing_decision.recommended_k
             /\ collab.store = "failed" => context_results = <<>>

\* C14 happens: the search of a non-emergency decision fails
C14_Witness ==
    /\ pc = "stage_retrieved"
    /\ ~routing_decision.emergency_flag
    /\ routing_decision.category_filter # None
    /\ collab.store = "failed"
    /\ context_results = <<>>

-----------------------------------------------------------------------------
(* Properties of generate_rag_response (SpecGenerate) *)

\* C15: generate_rag_response returns a fixed fallback answer with confidence
\* 0.1 and no sources, raising nothing, when the context is empty (the
\* generation is then not called, for query type EMERGENCY too) and when the
\* generation raises.
C15_FallbackOnEmptyOrError ==
    pc = "generate_rag_response"
        => /\ context_results = <<>>
                 => /\ rag_response.answer = NoContextAnswer
                    /\ rag_response.confidence = Fx(10)
                    /\ rag_response.sources = <<>>
                    /\ ~rag_response.emergency_detected
                    /\ collab.llm = "not_called"
           /\ collab.llm = "raised"
                 => /\ rag_response.answer = GenerationErrorAnswer
                    /\ rag_response.confidence = Fx(10)
                    /\ rag_response.sources = <<>>

\* C15 happens: an empty context with query type EMERGENCY
C15_Witness ==
    /\ pc = "generate_rag_response"
    /\ context_results = <<>>
    /\ rag_response.query_type = "emergency"
    /\ rag_response.confidence = Fx(10)

\* C17: when, in a pipeline request, the retrieval gives an empty result set or
\* the generation fails or times out, the answer returned is the fallback answer
\* text and the confidence returned is the fallback confidence 0.1.
C17_FallbackConfidenceReturned ==
    LET fallbacks == {NoContextAnswer, GenerationErrorAnswer, LLMStatusErrorAnswer,
                      LLMExceptionAnswer}
        failure == \/ collab.store = "failed"
                   \/ collab.store = "ok" /\ context_results = <<>>
                   \/ collab.llm \in {"500", "exception"}
    IN  (pc = "done" /\ rag_router /\ failure)
            => /\ result.response \in fallbacks
               /\ result.confidence = Fx(10)

-----------------------------------------------------------------------------
(* Properties of _apply_type_specific_filtering (SpecFilter) *)

\* C18: after the post-processing of retrieve_context no boosted result has a
\* relevance_score above 1.0, and when the scores of the vector store are within
\* [0, 1] every returned relevance_score is within [0, 1], for every query type
\* and document category.
C18_BoostedScoreCapped ==
    pc = "_apply_type_specific_filtering"
        => /\ Len(context_results) = Len(collab.results)
           /\ \A i \in 1..Len(context_results) :
                 boost_map(v_args.query_type, context_results[i].document.category) # 0
                    => context_results[i].relevance_score <= Fx(100)
           /\ (\A j \in 1..Len(collab.results) :
                  /\ collab.results[j].relevance_score >= Fx(0)
                  /\ collab.results[j].relevance_score <= Fx(100))
                 => \A i \in 1..Len(context_results) :
                       /\ context_results[i].relevance_score >= Fx(0)
                       /\ context_results[i].relevance_score <= Fx(100)

\* C18 happens: a result at 0.9 is boosted by 1.2 and capped at 1.0
C18_Witness ==
    /\ pc = "_apply_type_specific_filtering"
    /\ v_args.query_type = "drug_interaction"
    /\ Len(collab.results) = 1
    /\ collab.results[1].document.category = "interaction"
    /\ collab.results[1].relevance_score = Fx(90)
    /\ context_results[1].relevance_score = Fx(100)

-----------------------------------------------------------------------------
(* Properties of the augmenter and the generator (SpecGenerator) *)

\* C22: MedicalGenerator.generate accepts every output of MedicalAugmenter.augment,
\* the no-documents output with its empty metadata and a metadata holding only a
\* sources list included, and returns the response text and a confidence, which
\* is above 0.5 whenever the sources list is not empty.
C22_GenerateAcceptsAugmentedInput ==
    /\ pc # "generate_raised"
    /\ pc = "generate"
          => /\ output.response # NoneText
             /\ output.metadata = augmented_input.metadata
             /\ augmented_input.metadata.sources # <<>> => output.confidence > Fx(50)

\* C23: for a non-empty, non-emergency result list whose completion succeeds,
\* generate_rag_response attributes exactly the first min(3, n) results in rank
\* order, and its confidence is the mean of the average relevance score and the
\* average source confidence of those same used results, for n = 4 or 5 too.
C23_ConfidenceOverUsedResults ==
    (/\ pc = "generate_rag_response"
     /\ context_results # <<>>
     /\ rag_response.query_type # "emergency"
     /\ collab.llm = "returned")
        => LET used == SubSeq(context_results, 1, Min(3, Len(context_results)))
           IN  /\ rag_response.sources = [i \in 1..Len(used) |-> Attribution(used[i])]
               /\ rag_response.confidence =
                      ((SumRelevance(used) \div Len(used))
                          + (SumDocConfidence(used) \div Len(used))) \div 2

-----------------------------------------------------------------------------
(* The confidence of SAFE and WARNING results (SpecScore) *)

\* C24: the confidence_score of a SAFE or WARNING result is the clamp to [0, 1]
\* of 0.8 plus the level adjustment (SAFE 0.0, WARNING -0.1), averaged with the
\* mean source confidence when there are sources or lowered by 0.1 when there
\* are none, plus 0.05 when the final text holds the disclaimer marker; so with
\* the same sources and the same disclaimer presence WARNING never scores above
\* SAFE.
C24_SafeWarningScore ==
    (pc = "validate_response" /\ validation_result.level \in {"safe", "warning"})
        => LET sources == v_args.sources
               marker == HasDisclaimerMarker(validation_result.modified_response)
               Score(adjustment) ==
                   LET running == Fx(80) + adjustment
                       sourced == IF sources # <<>>
                                  THEN (running + (SumConfidence(sources, Fx(50)) \div Len(sources))) \div 2
                                  ELSE running - Fx(10)
                       final == IF marker THEN sourced + Fx(5) ELSE sourced
                   IN  IF final < Fx(0) THEN Fx(0) ELSE IF final > Fx(100) THEN Fx(100) ELSE final
           IN  /\ validation_result.confidence_score =
                      Score(IF validation_result.level = "safe" THEN Fx(0) ELSE 0 - Fx(10))
               /\ Score(0 - Fx(10)) <= Score(Fx(0))

\* C24 happens: a WARNING text with one source of confidence 0.5 and an appended
\* disclaimer scores (0.7 + 0.5) / 2 + 0.05 = 0.65
C24_Witness ==
    /\ pc = "validate_response"
    /\ validation_result.level = "warning"
    /\ Len(v_args.sources) = 1
    /\ v_args.sources[1].confidence = Fx(50)
    /\ HasDisclaimerMarker(validation_result.modified_response)
    /\ validation_result.confidence_score = Fx(65)

-----------------------------------------------------------------------------
(* The rewriting of WARNING texts (SpecValidate) *)

\* C25: a text matching a warning pattern, and no critical or emergency pattern,
\* gives level WARNING with is_safe true, and in the part of the final text that
\* came from the input (the text before an appended disclaimer) no warning
\* pattern the input matched matches any more; a text matching no pattern gives
\* level SAFE and keeps its wording, apart from an appended disclaimer.
C25_WarningPhrasesRewritten ==
    (/\ pc = "validate_response"
     /\ ~validate_raises(v_args.response, v_args.sources, v_args.query_type)
     /\ ~_contains_critical_unsafe_content(v_args.response)
     /\ ~_contains_emergency_indicators(v_args.response))
        => LET final == validation_result.modified_response
               Appended(k) == <<"Medical", "Disclaimer">> \o disclaimers(k)
               kinds == {k \in {"general", "medication", "symptom", "emergency", "chronic",
                                "mental_health"} :
                           /\ Len(final) >= Len(Appended(k))
                           /\ SubSeq(final, Len(final) - Len(Appended(k)) + 1, Len(final))
                                 = Appended(k)}
               body == IF kinds = {} THEN final
                       ELSE SubSeq(final, 1, Len(final) - Len(Appended(CHOOSE k \in kinds : TRUE)))
               matched == {n \in DOMAIN warning_patterns :
                             MatchesPattern(v_args.response, warning_patterns[n])}
           IN  /\ validation_result.is_safe
               /\ IF matched # {}
                  THEN /\ validation_result.level = "warning"
                       /\ \A n \in matched : ~MatchesPattern(body, warning_patterns[n])
                  ELSE /\ validation_result.level = "safe"
                       /\ body = v_args.response

-----------------------------------------------------------------------------
(* The order of the post-processed results (SpecFilter) *)

\* C26: the post-processing of retrieve_context returns a permutation of the
\* results of the vector store, in descending order of the boosted score, with
\* results of equal boosted score in the order the store gave them; a result whose
\* category is not in the boost table of the query type keeps its score.
C26_StableDescendingPermutation ==
    pc = "_apply_type_specific_filtering"
        => LET given == collab.results
               out == context_results
               n == Len(given)
           IN  /\ Len(out) = n
               /\ \E pi \in {f \in [1..n -> 1..n] : \A a, b \in 1..n : f[a] = f[b] => a = b} :
                     /\ \A i \in 1..n :
                           /\ out[i].document = given[pi[i]].document
                           /\ boost_map(v_args.query_type, given[pi[i]].document.category) = 0
                                 => out[i].relevance_score = given[pi[i]].relevance_score
                     /\ \A i, j \in 1..n :
                           i < j => \/ out[i].relevance_score > out[j].relevance_score
                                    \/ /\ out[i].relevance_score = out[j].relevance_score
                                       /\ pi[i] < pi[j]

\* C26 happens: a boosted second result overtakes an unboosted first one, which
\* keeps its score
C26_Witness ==
    /\ pc = "_apply_type_specific_filtering"
    /\ v_args.query_type = "drug_interaction"
    /\ Len(collab.results) = 2
    /\ collab.results[1].document.category = "general"
    /\ collab.results[1].relevance_score = Fx(90)
    /\ collab.results[2].document.category = "interaction"
    /\ collab.results[2].relevance_score = Fx(90)
    /\ context_results[1].document.category = "interaction"
    /\ context_results[1].relevance_score = Fx(100)
    /\ context_results[2] = collab.results[1]

-----------------------------------------------------------------------------
(* The order of the stages of one request (Spec) *)

\* C27: within one request the calls are made in the order classification,
\* retrieval, synthesis (with its one completion request), validation, none of
\* them twice, so the vector search and the completion service are asked at most
\* once and never again after a failure; and the result is returned right after
\* the validation.
C27_StagesInOrderOnce ==
    LET Rank(c) == CASE c = "classify_query"        -> 1
                     [] c = "retrieve_context"      -> 2
                     [] c = "generate_rag_response" -> 3
                     [] c = "get_llm_response"      -> 4
                     [] c = "validate_response"     -> 5
                     [] OTHER                       -> 0
    IN  /\ \A i \in 1..Len(calls) : Rank(calls[i]) >= 1
        /\ \A i, j \in 1..Len(calls) : i < j => Rank(calls[i]) < Rank(calls[j])
        /\ pc = "done" => /\ calls # <<>>
                          /\ calls[Len(calls)] = "validate_response"
                          /\ result.response = validation_result.modified_response

\* C27 happens: a request whose completion request failed went through the four
\* stages once each and returned
C27_Witness ==
    /\ pc = "done"
    /\ collab.store = "ok"
    /\ collab.llm = "500"
    /\ calls = <<"classify_query", "retrieve_context", "generate_rag_response",
                 "get_llm_response", "validate_response">>

-----------------------------------------------------------------------------
(* Requests handled at the same time (SpecConcurrent) *)

\* C28: however the steps of two requests that share the router and the
\* validator interleave, the result of each request is the result the request
\* gets when it is handled alone, which depends on its own query, its own search
\* results and its own completion only: the boosting of one request's results
\* in place is never seen by the other request, and the same inputs give the
\* same result.
C28_ResultAsWhenAlone ==
    \A r \in Requests :
        reqs[r].pc = "done"
            => LET q == reqs[r].query
                   decision == classify_query(q, None)
                   v == validate_response(emergency_response, EmergencySources, "emergency")
               IN  reqs[r].result =
                       IF decision.emergency_flag
                       THEN [response |-> v.modified_response, sources |-> EmergencySources,
                             query_type |-> "emergency", confidence |-> v.confidence_score,
                             emergency |-> TRUE, warnings |-> <<>>]
                       ELSE Answer(q, decision,
                                   retrieve_context(q, decision, reqs[r].store), reqs[r].api)

\* C28 happens: both requests got the same document at 0.5 for the same query,
\* their boosting steps interleaved, and each returned it boosted once, to 0.6
C28_Witness ==
    /\ \A r \in Requests :
          /\ reqs[r].pc = "done"
          /\ reqs[r].decision.query_type = "medication_info"
          /\ Len(reqs[r].store.results) = 1
          /\ reqs[r].store.results[1].relevance_score = Fx(50)
          /\ reqs[r].api.status = "200"
          /\ Len(reqs[r].result.sources) = 1
          /\ reqs[r].result.sources[1].relevance = Fx(60)
    /\ reqs[1].refs # reqs[2].refs
    /\ reqs[1].result = reqs[2].result

-----------------------------------------------------------------------------
(* Termination of a request (SpecLive) *)

\* C29: every request of the pipeline eventually returns a result to its
\* caller, also when the vector search or the completion service never answers.
C29_EveryRequestReturns == (pc = "start") ~> (pc = "done")

-----------------------------------------------------------------------------
(* Invariants of the ValidationResult (SpecValidate) *)

\* C30: in every result of validate_response is_safe is false exactly when the
\* level is UNSAFE; an UNSAFE result has confidence_score 0.0, sources_verified
\* false and the canonical fallback, and nothing else, as its text; and
\* sources_verified is true only when a non-empty sources list was given.
C30_ValidationResultInvariants ==
    pc = "validate_response"
        => /\ (validation_result.is_safe = FALSE) <=> (validation_result.level = "unsafe")
           /\ validation_result.level = "unsafe"
                 => /\ validation_result.confidence_score = Fx(0)
                    /\ validation_result.sources_verified = FALSE
                    /\ validation_result.modified_response = _get_safe_fallback_response
           /\ validation_result.sources_verified => v_args.sources # <<>>

=============================================================================
